---- MODULE Spec2Model ----
(***************************************************************************)
(* Model of the weatherindex sensor tooling: the retrying HTTP GET         *)
(* (tools/sensors/utils/http.py), the chunking generator                   *)
(* (tools/sensors/utils/iterable.py), the GeoSphere chunk merge            *)
(* (tools/sensors/providers/geosphere.py), the providers' fetch_job       *)
(* bodies (tools/sensors/providers/*.py), the scheduling loop that calls   *)
(* them, and the forecast snapshot loop (tools/forecast/downloader.py).    *)
(***************************************************************************)
EXTENDS Integers, Sequences, FiniteSets, TLC

VARIABLES
    \* Http.get_with_session
    retry_count,        \* the retry_count argument of the call
    remain_retries,     \* the local counter of the while loop
    http_pc,            \* "loop" | "backoff" | "returned"
    http_attempts,      \* outcomes of the session.get attempts made so far
    http_sleeps,        \* number of asyncio.sleep(1) calls made so far
    http_log,           \* log records emitted so far
    http_result,        \* what the call returned: a body, None, or Pending
    http_raised,        \* TRUE when an exception left the call
    \* batched(iterable, n): one generator object
    b_iterable,         \* the iterable argument
    b_n,                \* the n argument
    b_it,               \* number of elements the iterator `it` has handed out
    b_yielded,          \* the batches yielded so far, in order
    b_pc,               \* "created" | "suspended" | "exhausted" | "raised"
    b_error,            \* the exception the generator raised, or None
    \* GeoSphereProvider._combine_chunk_data
    chunk_data_list,    \* the argument: a list of response dicts
    combined_data,      \* the dict the call returned
    combine_pc,         \* "called" | "returned"
    \* one provider instance and its fetch_job calls
    provider,               \* which provider class the instance is
    _last_meta_checksum,    \* DWDProvider._last_meta_checksum
    _download_batch_size,   \* NdbcProvider._download_batch_size
    job_count,              \* fetch_job calls made so far on the instance
    job_timestamp,          \* the timestamp argument of the last call
    job_store_calls,        \* the _store_file calls the last call made
    job_log,                \* warning and error records the last call logged
    job_propagated,         \* the exception that left the last call, or None
    job_requests,           \* the sub-requests the last call started, in order
    job_station_ids,        \* the station ids the last call obtained
    job_current_checksum,   \* the meta-file checksum the last call fetched
    job_results,            \* what the last call's sub-requests returned, per task
    \* the scheduling loop of a provider instance (BaseProvider.run)
    run_ticks,          \* the bounded tick count N the loop was started with
    run_pc,             \* "idle" | "waiting" | "running" | "stopped" | "raised"
    run_completed,      \* ticks completed so far
    run_now,            \* the clock, in seconds
    next_slot,          \* the slot the loop sleeps to and hands to fetch_job
    \* ForecastDownloader and one call of its run
    _download_period,       \* self._download_period
    _s3_uri,                \* self._s3_uri: a URI, or None
    _keep_local_snapshots,  \* self._keep_local_snapshots
    _last_upload,           \* self._last_upload
    snapshots_to_download,  \* the argument of run: <<N>>, or <<>> for None
    downloaded_snapshots,   \* the local counter of run
    current_time,           \* local of the iteration, line 65
    next_snapshot,          \* local of the iteration, line 67
    wait_time,              \* local of the iteration, line 70
    fd_pc,                  \* where run is, see the steps below
    fd_now,                 \* the clock get_current_time reads
    fd_error,               \* the exception that left run, or None
    get_forecast_calls,     \* the slots get_forecast was called on, in order
    local_files,            \* the scratch directories: <<directory, file>> pairs
    local_dirs,             \* the scratch directories that exist
    local_zips,             \* the zip files that exist: [slot, files]
    uploads,                \* the zip files uploaded, in order: [slot, files]
    \* the sensors entry point (tools/sensors/__main__.py)
    storage_uri,            \* args.storage_uri, as a sequence of pieces of text
    command,                \* args.provider, the subcommand given, or None
    main_pc,                \* where main is, see the steps below
    publisher,              \* what _create_publisher returned: [kind, arg]
    main_provider,          \* the class of the provider constructed, or None
    main_runs,              \* how many times provider.run() was entered
    main_error,             \* the exception that left main, or None
    \* the scratch directory of one DWDProvider / FSDIOpenDataProvider job
    scratch_provider,       \* the class whose fetch_job is running, or None
    scratch_pc,             \* where the job is, see the steps below
    temp_dir,               \* whether the TemporaryDirectory exists
    temp_files,             \* the files in it
    tasks,                  \* the download tasks handed to asyncio.gather
    archive,                \* the zip file: [state, members]
    archive_content,        \* what was read back from the zip file
    scratch_store_calls,    \* the contents handed to _store_file, in order
    scratch_raised,         \* the exception raised inside the try, or None
    scratch_log,            \* the error records logged
    \* the concurrent chunk requests of one GeoSphereProvider job
    fetch_chunk_outcomes,   \* what each fetch_chunk task ends with, by chunk index
    completion_order,       \* the chunk indexes in the order their tasks finished
    chunks_pc,              \* where the job is, see the steps below
    gathered_results,       \* what asyncio.gather returned
    stored_documents,       \* the documents handed to _store_file, in order
    chunks_raised,          \* the exception raised inside the try, or None
    \* GeoSphereProvider._construct_api_url
    url_timestamp,          \* the argument timestamp
    url_station_ids,        \* the argument station_ids
    url_pc,                 \* "called" or "returned"
    url,                    \* the URL returned: [station_ids, start, end]
    \* GeoSphereProvider._fetch_station_ids
    metadata_response,      \* what the metadata request does
    metadata_pc,            \* "called", "returned" or "raised"
    metadata_station_ids    \* the list returned

httpVars == <<retry_count, remain_retries, http_pc, http_attempts,
              http_sleeps, http_log, http_result, http_raised>>

batchedVars == <<b_iterable, b_n, b_it, b_yielded, b_pc, b_error>>

combineVars == <<chunk_data_list, combined_data, combine_pc>>

jobVars == <<provider, _last_meta_checksum, _download_batch_size, job_count,
             job_timestamp, job_store_calls, job_log, job_propagated,
             job_requests, job_station_ids, job_current_checksum,
             job_results>>

runVars == <<run_ticks, run_pc, run_completed, run_now, next_slot>>

fdVars == <<_download_period, _s3_uri, _keep_local_snapshots, _last_upload,
            snapshots_to_download, downloaded_snapshots, current_time, next_snapshot,
            wait_time, fd_pc, fd_now, fd_error, get_forecast_calls, local_files,
            local_dirs, local_zips, uploads>>

mainVars == <<storage_uri, command, main_pc, publisher, main_provider, main_runs,
              main_error>>

scratchVars == <<scratch_provider, scratch_pc, temp_dir, temp_files, tasks, archive,
                 archive_content, scratch_store_calls, scratch_raised, scratch_log>>

chunksVars == <<fetch_chunk_outcomes, completion_order, chunks_pc, gathered_results,
                stored_documents, chunks_raised>>

urlVars == <<url_timestamp, url_station_ids, url_pc, url>>

metadataVars == <<metadata_response, metadata_pc, metadata_station_ids>>

vars == <<httpVars, batchedVars, combineVars, jobVars, runVars, fdVars, mainVars,
          scratchVars, chunksVars, urlVars, metadataVars>>

\* What the steps of one component leave alone.
notHttp == <<batchedVars, combineVars, jobVars, runVars, fdVars, mainVars, scratchVars,
    chunksVars, urlVars, metadataVars>>
notBatched == <<httpVars, combineVars, jobVars, runVars, fdVars, mainVars, scratchVars,
    chunksVars, urlVars, metadataVars>>
notCombine == <<httpVars, batchedVars, jobVars, runVars, fdVars, mainVars, scratchVars,
    chunksVars, urlVars, metadataVars>>
\* A fetch_job call leaves these alone; the loop that makes the call moves on.
notJobs == <<httpVars, batchedVars, combineVars, fdVars, mainVars, scratchVars,
    chunksVars, urlVars, metadataVars>>
notFd == <<httpVars, batchedVars, combineVars, jobVars, runVars, mainVars, scratchVars,
    chunksVars, urlVars, metadataVars>>
notMain == <<httpVars, batchedVars, combineVars, jobVars, runVars, fdVars,
            scratchVars, chunksVars, urlVars, metadataVars>>
notChunks == <<httpVars, batchedVars, combineVars, jobVars, runVars, fdVars, mainVars,
              scratchVars, urlVars, metadataVars>>
notUrl == <<httpVars, batchedVars, combineVars, jobVars, runVars, fdVars, mainVars,
           scratchVars, chunksVars, metadataVars>>
notMetadata == <<httpVars, batchedVars, combineVars, jobVars, runVars, fdVars, mainVars,
                scratchVars, chunksVars, urlVars>>
notScratch == <<httpVars, batchedVars, combineVars, jobVars, runVars, fdVars, mainVars,
    chunksVars, urlVars, metadataVars>>

(***************************************************************************)
(* Bounds                                                                  *)
(***************************************************************************)
MaxRetry == 3
MaxItems == 4
MaxBatch == 3
MaxChunks == 3
MaxJobs == 2
MaxStations == 2
MaxMetadataStations == 3
MaxFiles == 2
MaxSnapshots == 2
MaxPeriod == 3
MaxTime == 8

(***************************************************************************)
(* batched(iterable, n)                                                    *)
(***************************************************************************)
None == "None"
Elements == {"x", "y"}

Min(a, b) == IF a <= b THEN a ELSE b

\* `if n < 1: raise ValueError(...)`
ArgumentCheck_AllowsZero(n) == n < 0
ArgumentCheck(n) == n < 1

\* list(islice(it, n)) for an iterator that has already handed out `pos`
\* elements of `iterable`: the next n elements, fewer at the end.
islice_OneTooMany(iterable, pos, n) ==
    SubSeq(iterable, pos + 1, Min(pos + n + 1, Len(iterable)))
islice(iterable, pos, n) ==
    SubSeq(iterable, pos + 1, Min(pos + n, Len(iterable)))

\* No generator has been created.
BatchedIdle ==
    /\ b_iterable = <<>>
    /\ b_n = 1
    /\ b_it = 0
    /\ b_yielded = <<>>
    /\ b_pc = "idle"
    /\ b_error = None

\* batched(iterable, n) was called: a generator object exists and none of
\* its body has run.
BatchedInit ==
    /\ b_iterable \in UNION {[1 .. k -> Elements] : k \in 0 .. MaxItems}
    /\ b_n \in -1 .. MaxBatch
    /\ b_it = 0
    /\ b_yielded = <<>>
    /\ b_pc = "created"
    /\ b_error = None

\* The first next() on the generator runs the argument check and raises.
BatchedRaise ==
    /\ b_pc = "created"
    /\ ArgumentCheck(b_n)
    /\ b_pc' = "raised"
    /\ b_error' = "ValueError"
    /\ UNCHANGED <<b_iterable, b_n, b_it, b_yielded>>
    /\ UNCHANGED notBatched

\* next(): `while batch := list(islice(it, n))` finds a batch and yields it.
BatchedYield ==
    /\ b_pc \in {"created", "suspended"}
    /\ b_pc = "created" => ~ArgumentCheck(b_n)
    /\ LET batch == islice(b_iterable, b_it, b_n)
       IN  /\ batch # <<>>
           /\ b_yielded' = Append(b_yielded, batch)
           /\ b_it' = b_it + Len(batch)
    /\ b_pc' = "suspended"
    /\ UNCHANGED <<b_iterable, b_n, b_error>>
    /\ UNCHANGED notBatched

\* next(): the batch is empty, the loop ends and the generator is exhausted.
BatchedStop ==
    /\ b_pc \in {"created", "suspended"}
    /\ b_pc = "created" => ~ArgumentCheck(b_n)
    /\ islice(b_iterable, b_it, b_n) = <<>>
    /\ b_pc' = "exhausted"
    /\ UNCHANGED <<b_iterable, b_n, b_it, b_yielded, b_error>>
    /\ UNCHANGED notBatched

BatchedNext ==
    \/ BatchedRaise
    \/ BatchedYield
    \/ BatchedStop

(***************************************************************************)
(* GeoSphereProvider._combine_chunk_data                                   *)
(*                                                                         *)
(* A response dict is a function from the keys it holds to lists.          *)
(* Timestamps are numbered in chronological order; a feature is named by   *)
(* a number.                                                               *)
(***************************************************************************)
EmptyDict == [k \in {} |-> <<>>]

\* Lists a response can hold under "timestamps": one unsorted with a
\* duplicate, one sorted; they share a timestamp.
TimestampLists == {<<2, 1, 2>>, <<1, 3>>}
\* Lists a response can hold under "features".
FeatureLists == {<<11>>, <<12, 11>>}
\* A key the merge does not look at, e.g. "type": "FeatureCollection".
OtherKeyLists == {<<0>>}

KeyValues(k) ==
    IF k = "timestamps" THEN TimestampLists
    ELSE IF k = "features" THEN FeatureLists
    ELSE OtherKeyLists

\* The response dicts: any subset of the keys present.
Responses ==
    UNION {{d \in [D -> TimestampLists \cup FeatureLists \cup OtherKeyLists] :
               \A k \in D : d[k] \in KeyValues(k)} :
           D \in SUBSET {"timestamps", "features", "type"}}

Range(s) == {s[i] : i \in DOMAIN s}

\* sorted(list(a_set)) of numbers
RECURSIVE sorted(_)
sorted(S) ==
    IF S = {} THEN <<>>
    ELSE LET m == CHOOSE x \in S : \A y \in S : x <= y
         IN  <<m>> \o sorted(S \ {m})

\* all_timestamps after the first loop: the set updated with every response's
\* "timestamps" list, for the responses that have the key.
RECURSIVE all_timestamps(_)
all_timestamps_FirstOnly(chunks) ==
    IF chunks = <<>> \/ "timestamps" \notin DOMAIN Head(chunks) THEN {}
    ELSE Range(Head(chunks)["timestamps"])
all_timestamps(chunks) ==
    IF chunks = <<>> THEN {}
    ELSE LET chunk_data == Head(chunks)
         IN  (IF "timestamps" \in DOMAIN chunk_data
              THEN Range(chunk_data["timestamps"]) ELSE {})
             \cup all_timestamps(Tail(chunks))

\* `combined_data["timestamps"] = sorted(list(all_timestamps))`
merged_timestamps_ArrivalOrder(chunks) ==
    LET RECURSIVE Cat(_)
        Cat(cs) == IF cs = <<>> THEN <<>>
                   ELSE (IF "timestamps" \in DOMAIN Head(cs)
                         THEN Head(cs)["timestamps"] ELSE <<>>) \o Cat(Tail(cs))
        RECURSIVE Dedup(_, _)
        Dedup(s, seen) == IF s = <<>> THEN <<>>
                          ELSE IF Head(s) \in seen THEN Dedup(Tail(s), seen)
                          ELSE <<Head(s)>> \o Dedup(Tail(s), seen \cup {Head(s)})
    IN  Dedup(Cat(chunks), {})
merged_timestamps(chunks) == sorted(all_timestamps(chunks))

\* combined_data["features"] after the second loop: extended with every
\* response's "features" list, in list order.
RECURSIVE merged_features(_)
merged_features_Dedup(chunks) ==
    LET RECURSIVE Ext(_, _)
        Ext(acc, fs) == IF fs = <<>> THEN acc
                        ELSE IF Head(fs) \in Range(acc) THEN Ext(acc, Tail(fs))
                        ELSE Ext(Append(acc, Head(fs)), Tail(fs))
        RECURSIVE Go(_, _)
        Go(acc, cs) == IF cs = <<>> THEN acc
                       ELSE Go(IF "features" \in DOMAIN Head(cs)
                               THEN Ext(acc, Head(cs)["features"]) ELSE acc, Tail(cs))
    IN  Go(<<>>, chunks)
merged_features_SkipsLast(chunks) ==
    LET RECURSIVE Go(_)
        Go(cs) == IF Len(cs) <= 1 THEN <<>>
                  ELSE (IF "features" \in DOMAIN Head(cs)
                        THEN Head(cs)["features"] ELSE <<>>) \o Go(Tail(cs))
    IN  Go(chunks)
merged_features(chunks) ==
    IF chunks = <<>> THEN <<>>
    ELSE LET chunk_data == Head(chunks)
         IN  (IF "features" \in DOMAIN chunk_data
              THEN chunk_data["features"] ELSE <<>>)
             \o merged_features(Tail(chunks))

\* The merge proper, geosphere.py lines 180-201.
merge(chunks) ==
    [timestamps |-> merged_timestamps(chunks), features |-> merged_features(chunks)]

\* _combine_chunk_data(chunk_data_list)
_combine_chunk_data_NoSingleReturn(chunks) ==
    IF chunks = <<>> THEN EmptyDict ELSE merge(chunks)
_combine_chunk_data_NoEmptyReturn(chunks) ==
    IF Len(chunks) = 1 THEN chunks[1] ELSE merge(chunks)
_combine_chunk_data(chunks) ==
    IF chunks = <<>> THEN EmptyDict
    ELSE IF Len(chunks) = 1 THEN chunks[1]
    ELSE merge(chunks)

\* No call of _combine_chunk_data is in progress.
CombineIdle ==
    /\ chunk_data_list = <<>>
    /\ combined_data = EmptyDict
    /\ combine_pc = "idle"

\* _combine_chunk_data was called with some list of responses.
CombineInit ==
    /\ chunk_data_list \in UNION {[1 .. k -> Responses] : k \in 0 .. MaxChunks}
    /\ combined_data = EmptyDict
    /\ combine_pc = "called"

CombineReturn ==
    /\ combine_pc = "called"
    /\ combined_data' = _combine_chunk_data(chunk_data_list)
    /\ combine_pc' = "returned"
    /\ UNCHANGED chunk_data_list
    /\ UNCHANGED notCombine

CombineNext == CombineReturn

(***************************************************************************)
(* Http.get_with_session                                                   *)
(***************************************************************************)
StatusOK == 200
OtherStatuses == {404, 500}

Pending == "Pending"
Bodies == {"body_a", "body_b"}

\* What one `await session.get(...)` followed by `await response.read()` can do:
\* session.get raises; it answers a non-200 status; it answers 200 and the
\* read raises; it answers 200 and the read yields a body.
AttemptOutcomes ==
    {[get_raised |-> TRUE, status |-> 0, read_raised |-> FALSE, body |-> None]}
    \cup {[get_raised |-> FALSE, status |-> st, read_raised |-> FALSE, body |-> None] :
             st \in OtherStatuses}
    \cup {[get_raised |-> FALSE, status |-> StatusOK, read_raised |-> TRUE, body |-> None]}
    \cup {[get_raised |-> FALSE, status |-> StatusOK, read_raised |-> FALSE, body |-> b] : b \in Bodies}

LogRecord(level, attempt) == [level |-> level, attempt |-> attempt]

\* `while remain_retries > 0`
WhileGuard_OffByOne(remain) == remain >= 0
WhileGuard(remain) == remain > 0

\* The except clause: `except BaseException as ex` logs a warning and, on the
\* last retry, the exception itself.
ExceptClause(remain, log, attempt) ==
    LET warned == Append(log, LogRecord("warning", attempt))
    IN  IF remain = 1 THEN Append(warned, LogRecord("exception", attempt)) ELSE warned

\* The try statement of one loop iteration.  The result says whether the
\* function returned (and what), whether an exception escaped the try, and the
\* log after it.
TryStatement_ReadOutsideTry(o, remain, log, attempt) ==
    IF o.get_raised
    THEN [returned |-> FALSE, result |-> Pending, escaped |-> FALSE,
          log |-> ExceptClause(remain, log, attempt)]
    ELSE IF o.status = StatusOK
    THEN IF o.read_raised
         THEN [returned |-> FALSE, result |-> Pending, escaped |-> TRUE, log |-> log]
         ELSE [returned |-> TRUE, result |-> o.body, escaped |-> FALSE, log |-> log]
    ELSE [returned |-> FALSE, result |-> Pending, escaped |-> FALSE, log |-> log]

TryStatement(o, remain, log, attempt) ==
    IF o.get_raised \/ (o.status = StatusOK /\ o.read_raised)
    THEN [returned |-> FALSE, result |-> Pending, escaped |-> FALSE,
          log |-> ExceptClause(remain, log, attempt)]
    ELSE IF o.status = StatusOK
    THEN [returned |-> TRUE, result |-> o.body, escaped |-> FALSE, log |-> log]
    ELSE [returned |-> FALSE, result |-> Pending, escaped |-> FALSE, log |-> log]

\* No call of get_with_session is in progress.
HttpIdle ==
    /\ retry_count = 0
    /\ remain_retries = 0
    /\ http_pc = "idle"
    /\ http_attempts = <<>>
    /\ http_sleeps = 0
    /\ http_log = <<>>
    /\ http_result = Pending
    /\ http_raised = FALSE

\* `remain_retries = retry_count; response = None`
HttpInit ==
    /\ retry_count \in -1 .. MaxRetry
    /\ remain_retries = retry_count
    /\ http_pc = "loop"
    /\ http_attempts = <<>>
    /\ http_sleeps = 0
    /\ http_log = <<>>
    /\ http_result = Pending
    /\ http_raised = FALSE

\* One iteration of the while loop up to the end of the try statement.
HttpAttempt(o) ==
    /\ http_pc = "loop"
    /\ WhileGuard(remain_retries)
    /\ LET n == Len(http_attempts) + 1
           t == TryStatement(o, remain_retries, http_log, n)
       IN  /\ http_attempts' = Append(http_attempts, o)
           /\ http_log' = t.log
           /\ http_result' = t.result
           /\ http_raised' = t.escaped
           /\ http_pc' = IF t.returned \/ t.escaped THEN "returned" ELSE "backoff"
    /\ UNCHANGED <<retry_count, remain_retries, http_sleeps>>
    /\ UNCHANGED notHttp

\* The rest of the iteration without `remain_retries -= 1`.
HttpBackoff_NoDecrement ==
    /\ http_pc = "backoff"
    /\ IF remain_retries > 0
       THEN /\ http_log' = Append(http_log, LogRecord("info", Len(http_attempts)))
            /\ http_sleeps' = http_sleeps + 1
            /\ UNCHANGED remain_retries
       ELSE UNCHANGED <<http_log, http_sleeps, remain_retries>>
    /\ http_pc' = "loop"
    /\ UNCHANGED <<retry_count, http_attempts, http_result, http_raised>>
    /\ UNCHANGED notHttp

\* The rest of the iteration: `if remain_retries > 0:` log, sleep, decrement.
HttpBackoff ==
    /\ http_pc = "backoff"
    /\ IF remain_retries > 0
       THEN /\ http_log' = Append(http_log, LogRecord("info", Len(http_attempts)))
            /\ http_sleeps' = http_sleeps + 1
            /\ remain_retries' = remain_retries - 1
       ELSE UNCHANGED <<http_log, http_sleeps, remain_retries>>
    /\ http_pc' = "loop"
    /\ UNCHANGED <<retry_count, http_attempts, http_result, http_raised>>
    /\ UNCHANGED notHttp

\* The loop guard fails: `return None`.
HttpExhausted ==
    /\ http_pc = "loop"
    /\ ~WhileGuard(remain_retries)
    /\ http_pc' = "returned"
    /\ http_result' = None
    /\ UNCHANGED <<retry_count, remain_retries, http_attempts, http_sleeps,
                   http_log, http_raised>>
    /\ UNCHANGED notHttp

HttpNext ==
    \/ \E o \in AttemptOutcomes : HttpAttempt(o)
    \/ HttpBackoff
    \/ HttpExhausted

(***************************************************************************)
(* Providers: fetch_job                                                    *)
(*                                                                         *)
(* A fetch_job call is one step.  What the outside world does during the   *)
(* call (HTTP answers, archive contents, the sink) is the step's input.    *)
(* The outcome of a call is the _store_file calls it made, the warning and *)
(* error records it logged, and the exception that left it, if any.        *)
(***************************************************************************)
Providers == {"METAR", "DWD", "FSDIOpenData", "GeoSphere", "NDBC"}

\* Period-aligned timestamps handed to fetch_job.
Slots == {600, 1200}

\* Exceptions the operations of a job raise; all derive from Exception.
ExceptionSubclasses ==
    {"TransportError", "TypeError", "BadGzipFile", "UnicodeDecodeError",
     "ValueError", "ReadError", "OSError", "StoreError"}

\* `await self._store_file(name, content)`: the call and whether it returned
\* (ok) or raised.
StoreCall(name, content, ok) == [name |-> name, content |-> content, ok |-> ok]

\* File names: "{timestamp}.{ext}", or the name of a tar member.
SlotFile(timestamp, ext) == [timestamp |-> timestamp, member |-> None, ext |-> ext]
MemberFile(member) == [timestamp |-> 0, member |-> member, ext |-> None]

ErrorRecord(msg) == [level |-> "error", msg |-> msg]
WarningRecord(msg) == [level |-> "warning", msg |-> msg]
InfoRecord(msg) == [level |-> "info", msg |-> msg]

\* The state a block of statements ends in: raised is the exception it
\* raised, None when it ran to its end or returned.
Block(calls, log, raised) == [calls |-> calls, log |-> log, raised |-> raised]

\* What leaves fetch_job for a body that is not inside any try statement.
NoHandler(body) ==
    [calls |-> body.calls, log |-> body.log, propagated |-> body.raised]

\* `try: <body> except OSError as e: logging.error(e)`
ExceptException_OnlyOSError(body) ==
    IF body.raised = "OSError"
    THEN [calls |-> body.calls,
          log |-> Append(body.log, ErrorRecord(body.raised)),
          propagated |-> None]
    ELSE [calls |-> body.calls, log |-> body.log, propagated |-> body.raised]

\* `try: <body> except Exception as e: logging.error(e)`
ExceptException(body) ==
    IF body.raised # None /\ body.raised \in ExceptionSubclasses
    THEN [calls |-> body.calls,
          log |-> Append(body.log, ErrorRecord(body.raised)),
          propagated |-> None]
    ELSE [calls |-> body.calls, log |-> body.log, propagated |-> body.raised]

\* `try: <body> except BaseException as e: logging.error(...); raise`
ExceptBaseException_ReRaises(body) ==
    IF body.raised # None
    THEN [calls |-> body.calls,
          log |-> Append(body.log, ErrorRecord(body.raised)),
          propagated |-> body.raised]
    ELSE [calls |-> body.calls, log |-> body.log, propagated |-> None]

\* `try: <body> except BaseException as e: logging.error(...)`
ExceptBaseException(body) ==
    IF body.raised # None
    THEN [calls |-> body.calls,
          log |-> Append(body.log, ErrorRecord(body.raised)),
          propagated |-> None]
    ELSE [calls |-> body.calls, log |-> body.log, propagated |-> None]

(***************************************************************************)
(* MetarSource.fetch_job                                                   *)
(***************************************************************************)
\* What `await Http.get(url)` gives the job: a body, None, or (as the tests
\* inject) an exception.
HttpGetOutcomes == Bodies \cup {None, "raises"}

\* The try body, metar.py lines 26-30.
MetarSource_body(timestamp, data, gunzip_ok, store_ok) ==
    IF data = "raises" THEN Block(<<>>, <<>>, "TransportError")
    \* gzip.decompress(None)
    ELSE IF data = None THEN Block(<<>>, <<>>, "TypeError")
    ELSE IF ~gunzip_ok THEN Block(<<>>, <<>>, "BadGzipFile")
    ELSE Block(<<StoreCall(SlotFile(timestamp, "xml"), data, store_ok)>>, <<>>,
               IF store_ok THEN None ELSE "StoreError")

MetarSource_fetch_job(timestamp, data, gunzip_ok, store_ok) ==
    ExceptException(MetarSource_body(timestamp, data, gunzip_ok, store_ok))

(***************************************************************************)
(* NdbcProvider.fetch_job                                                  *)
(***************************************************************************)
\* The station id lists a job can work on: k distinct ids, here 1 .. k.
StationLists == {[i \in 1 .. k |-> i] : k \in 0 .. MaxStations}

\* Values of NDBC_DOWNLOAD_BATCH_SIZE.
BatchSizes == {0, 1, 2}

\* The members of a downloaded tar archive: files, and entries extractfile
\* gives None for.
Member(name, is_file) == [name |-> name, is_file |-> is_file]
TarContents ==
    {<<Member("dir", FALSE), Member("a.cdf", TRUE), Member("b.cdf", TRUE)>>}

\* What asyncio.gather(..., return_exceptions=True) holds for one batch: an
\* exception raised inside _fetch_archive, None, bytes that are no tar.gz
\* archive, or a tar.gz archive.
ArchiveOutcomes ==
    {[kind |-> k, members |-> <<>>] : k \in {"exception", "none", "not_tar"}}
    \cup {[kind |-> "tar", members |-> m] : m \in TarContents}

\* Which _store_file call of the job raises: the first, the second, or none.
StoreFailures == {0, 1, 2}

\* list(batched(iterable, n)) for n >= 1: the batches the generator yields
\* from position pos on.
RECURSIVE batches(_, _, _)
batches(iterable, pos, n) ==
    LET batch == islice(iterable, pos, n)
    IN  IF batch = <<>> THEN <<>>
        ELSE <<batch>> \o batches(iterable, pos + Len(batch), n)

\* Number of URLs in batched_urls (0 when batched raises).
NumBatches(station_ids, size) ==
    IF ArgumentCheck(size) THEN 0 ELSE Len(batches(station_ids, 0, size))

\* `for member in tar.getmembers()`: ndbc.py lines 113-118, from member i on.
RECURSIVE ExtractMembers(_, _, _, _)
ExtractMembers(members, i, b, store_fails_at) ==
    IF i > Len(members) \/ b.raised # None THEN b
    ELSE IF ~members[i].is_file THEN ExtractMembers(members, i + 1, b, store_fails_at)
    ELSE LET ok == Len(b.calls) + 1 # store_fails_at
             call == StoreCall(MemberFile(members[i].name), members[i].name, ok)
         IN  ExtractMembers(members, i + 1,
                            Block(Append(b.calls, call), b.log,
                                  IF ok THEN None ELSE "StoreError"),
                            store_fails_at)

\* `for data in downloaded_data`: ndbc.py lines 99-118, from entry i on.
RECURSIVE SaveArchives(_, _, _, _)
SaveArchives(downloaded_data, i, b, store_fails_at) ==
    IF i > Len(downloaded_data) \/ b.raised # None THEN b
    ELSE LET data == downloaded_data[i]
         IN  IF data.kind = "exception"
             THEN SaveArchives(downloaded_data, i + 1,
                               Block(b.calls, Append(b.log, ErrorRecord("archive exception")), None),
                               store_fails_at)
             ELSE IF data.kind = "none"
             THEN SaveArchives(downloaded_data, i + 1,
                               Block(b.calls, Append(b.log, WarningRecord("no data")), None),
                               store_fails_at)
             \* tarfile.open(fileobj=..., mode="r:gz")
             ELSE IF data.kind = "not_tar"
             THEN Block(b.calls, b.log, "ReadError")
             ELSE SaveArchives(downloaded_data, i + 1,
                               ExtractMembers(data.members, 1, b, store_fails_at),
                               store_fails_at)

\* The body of fetch_job, ndbc.py lines 36-118.  raw_ok: the sensor list page was
\* fetched; decode_ok: it decodes as UTF-8; station_ids: the sensors parsed
\* from it; size: self._download_batch_size; downloaded_data: one gathered
\* result per batch URL.
NdbcProvider_body(raw_ok, decode_ok, station_ids, size, downloaded_data, store_fails_at) ==
    IF ~raw_ok THEN Block(<<>>, <<ErrorRecord("Failed to fetch sensor id list")>>, None)
    ELSE IF ~decode_ok THEN Block(<<>>, <<>>, "UnicodeDecodeError")
    ELSE IF Len(station_ids) = 0
    THEN Block(<<>>, <<ErrorRecord("No parseable sensor was found")>>, None)
    \* the list comprehension over batched(station_ids, size)
    ELSE IF ArgumentCheck(size) THEN Block(<<>>, <<>>, "ValueError")
    ELSE IF Len(downloaded_data) = 0
    THEN Block(<<>>, <<ErrorRecord("Failed to download observations")>>, None)
    ELSE SaveArchives(downloaded_data, 1, Block(<<>>, <<>>, None), store_fails_at)

NdbcProvider_fetch_job(raw_ok, decode_ok, station_ids, size, downloaded_data, store_fails_at) ==
    NoHandler(NdbcProvider_body(raw_ok, decode_ok, station_ids, size,
                                downloaded_data, store_fails_at))

(***************************************************************************)
(* DWDProvider.fetch_job                                                   *)
(***************************************************************************)
\* SHA-256 digests of the meta-file.
Checksums == {"c1", "c2"}

\* What one download_file / download_csv_file task ends with: the path of the
\* written file ("ok"), or None (non-200 status, timeout, client error or any
\* other exception, each caught inside the task).
FileOutcomes == {"ok", "failed"}

\* The files a listing names (k distinct names, here 1 .. k) with the outcome
\* of each download.
Downloads == UNION {[1 .. k -> FileOutcomes] : k \in 0 .. MaxFiles}

\* The collection loop when one failed download fails the whole gather.
downloaded_files_AbortOnFailure(downloads, i) ==
    IF \E j \in DOMAIN downloads : downloads[j] = "failed" THEN <<>>
    ELSE [j \in 1 .. Len(downloads) |-> j]

\* The paths collected from the gathered results: the successful downloads
\* in listing order.
RECURSIVE downloaded_files(_, _)
downloaded_files(downloads, i) ==
    IF i > Len(downloads) THEN <<>>
    ELSE (IF downloads[i] = "ok" THEN <<i>> ELSE <<>>)
         \o downloaded_files(downloads, i + 1)

\* The warning or error a failed download logs, per file in listing order.
RECURSIVE download_log(_, _)
download_log(downloads, i) ==
    IF i > Len(downloads) THEN <<>>
    ELSE (IF downloads[i] = "failed" THEN <<WarningRecord("download failed")>> ELSE <<>>)
         \o download_log(downloads, i + 1)

\* Line 75 moved in front of the `if` of line 67: whatever was fetched is kept.
DWDProvider_checksum_AssignsAlways(last, current_checksum) == current_checksum

\* Line 75 guarded by `if self._last_meta_checksum is None`: only the first
\* checksum fetched is ever kept.
DWDProvider_checksum_KeepsFirst(last, current_checksum) ==
    IF last = None THEN current_checksum ELSE last

\* _last_meta_checksum after the checksum comparison of dwd.py lines 67-75.
DWDProvider_checksum(last, current_checksum) ==
    IF current_checksum = None THEN last
    ELSE IF current_checksum = last THEN last
    ELSE current_checksum

\* The try body without the `return` of line 71.
DWDProvider_body_NoEarlyReturn(timestamp, last, current_checksum, listing_ok, downloads, archive_ok, store_ok) ==
    LET files == IF listing_ok THEN downloaded_files(downloads, 1) ELSE <<>>
        log == IF current_checksum # None /\ current_checksum = last
               THEN <<InfoRecord("Meta-file checksum unchanged")>> ELSE <<>>
    IN  IF files = <<>>
        THEN Block(<<>>, Append(log, ErrorRecord("Failed to download any DWD station files")),
                   None)
        ELSE Block(<<StoreCall(SlotFile(timestamp, "zip"), files, store_ok)>>, log,
                   IF store_ok THEN None ELSE "StoreError")

\* The try body with the store call moved out of `if downloaded_files:`.
DWDProvider_body_StoreUnconditionally(timestamp, last, current_checksum, listing_ok, downloads, archive_ok, store_ok) ==
    LET files == IF listing_ok THEN downloaded_files(downloads, 1) ELSE <<>>
        call == StoreCall(SlotFile(timestamp, "zip"), files, store_ok)
    IN  IF current_checksum # None /\ current_checksum = last
        THEN Block(<<>>, <<InfoRecord("Meta-file checksum unchanged")>>, None)
        ELSE IF ~archive_ok THEN Block(<<>>, <<>>, "OSError")
        ELSE IF ~store_ok THEN Block(<<call>>, <<>>, "StoreError")
        ELSE IF files = <<>>
        THEN Block(<<call>>, <<ErrorRecord("Failed to download any DWD station files")>>, None)
        ELSE Block(<<call>>, <<>>, None)

\* The try body, dwd.py lines 64-97.  current_checksum: what _get_meta_file_checksum
\* returned; listing_ok: the directory listing answered 200; downloads: the
\* listed files and their outcomes.
DWDProvider_body(timestamp, last, current_checksum, listing_ok, downloads, archive_ok, store_ok) ==
    LET checksum_log ==
            IF current_checksum = None
            THEN <<ErrorRecord("Failed to fetch meta-file checksum")>> ELSE <<>>
        files == IF listing_ok THEN downloaded_files(downloads, 1) ELSE <<>>
        log == checksum_log
               \o (IF listing_ok THEN download_log(downloads, 1)
                    ELSE <<ErrorRecord("Failed to access DWD directory")>>)
    IN  IF current_checksum # None /\ current_checksum = last
        THEN Block(<<>>, <<InfoRecord("Meta-file checksum unchanged")>>, None)
        ELSE IF files = <<>>
        THEN Block(<<>>, Append(log, ErrorRecord("Failed to download any DWD station files")),
                   None)
        \* _create_combined_archive, then open(archive_path, "rb")
        ELSE IF ~archive_ok THEN Block(<<>>, log, "OSError")
        ELSE Block(<<StoreCall(SlotFile(timestamp, "zip"), files, store_ok)>>, log,
                   IF store_ok THEN None ELSE "StoreError")

DWDProvider_fetch_job(timestamp, last, current_checksum, listing_ok, downloads, archive_ok, store_ok) ==
    ExceptBaseException(DWDProvider_body(timestamp, last, current_checksum,
                                         listing_ok, downloads, archive_ok, store_ok))

(***************************************************************************)
(* FSDIOpenDataProvider.fetch_job                                          *)
(***************************************************************************)
\* The try body without the `if downloaded_files:` test: the archive, which
\* always holds stac_response.json, is stored whatever was downloaded.
FSDIOpenDataProvider_body_NoEmptyCheck(timestamp, stac_ok, stac_saved, downloads, archive_ok, store_ok) ==
    IF ~stac_ok THEN Block(<<>>, <<ErrorRecord("Failed to fetch STAC API data")>>, None)
    ELSE IF ~stac_saved THEN Block(<<>>, <<>>, "OSError")
    ELSE IF ~archive_ok THEN Block(<<>>, download_log(downloads, 1), "OSError")
    ELSE Block(<<StoreCall(SlotFile(timestamp, "zip"),
                           <<0>> \o downloaded_files(downloads, 1), store_ok)>>,
               download_log(downloads, 1), IF store_ok THEN None ELSE "StoreError")

\* The try body, fsdiopendata.py lines 54-87.  stac_ok: _fetch_stac_data returned a non-empty
\* response; stac_saved: stac_response.json was written; downloads: the
\* response's features and the outcome of each CSV download.
FSDIOpenDataProvider_body(timestamp, stac_ok, stac_saved, downloads, archive_ok, store_ok) ==
    IF ~stac_ok THEN Block(<<>>, <<ErrorRecord("Failed to fetch STAC API data")>>, None)
    ELSE IF ~stac_saved THEN Block(<<>>, <<>>, "OSError")
    ELSE LET files == downloaded_files(downloads, 1)
             log == download_log(downloads, 1)
         IN  IF files = <<>>
             THEN Block(<<>>, Append(log, ErrorRecord("Failed to download any CSV files")), None)
             ELSE IF ~archive_ok THEN Block(<<>>, log, "OSError")
             \* the archive holds stac_response.json (here 0) and the CSV files
             ELSE Block(<<StoreCall(SlotFile(timestamp, "zip"), <<0>> \o files, store_ok)>>,
                        log, IF store_ok THEN None ELSE "StoreError")

FSDIOpenDataProvider_fetch_job(timestamp, stac_ok, stac_saved, downloads, archive_ok, store_ok) ==
    ExceptBaseException(FSDIOpenDataProvider_body(timestamp, stac_ok, stac_saved,
                                                  downloads, archive_ok, store_ok))

(***************************************************************************)
(* GeoSphereProvider.fetch_job                                             *)
(***************************************************************************)
chunk_size == 100

\* The least k with k * b >= a, for a >= 0 and b > 0.
CeilDiv(a, b) == (a + b - 1) \div b

\* Numbers of active stations _fetch_station_ids can return (none when the
\* metadata call fails).
StationCounts == {0, 1, 100, 101, 250}

\* The slices taken one element short: station_ids[i:i + chunk_size - 1].
station_id_chunks_DropsBoundary(station_ids, i) ==
    IF i >= Len(station_ids) THEN <<>>
    ELSE [k \in 1 .. CeilDiv(Len(station_ids) - i, chunk_size) |->
            SubSeq(station_ids, i + (k - 1) * chunk_size + 1,
                   Min(i + k * chunk_size - 1, Len(station_ids)))]

\* `[station_ids[i:i + chunk_size] for i in range(0, len(station_ids), chunk_size)]`
RECURSIVE station_id_chunks(_, _)
station_id_chunks(station_ids, i) ==
    IF i >= Len(station_ids) THEN <<>>
    ELSE <<SubSeq(station_ids, i + 1, Min(i + chunk_size, Len(station_ids)))>>
         \o station_id_chunks(station_ids, i + chunk_size)

\* The responses a chunk request can bring: two documents, and the empty
\* JSON object.
ChunkResponses ==
    {[timestamps |-> <<2, 1, 2>>, features |-> <<11>>],
     [timestamps |-> <<1, 3>>, features |-> <<12, 11>>],
     EmptyDict}

\* What gather holds for one fetch_chunk task: (chunk_index, response),
\* (chunk_index, None) when _make_api_call failed, or the exception the task
\* raised outside _make_api_call (in _construct_api_url, before its GET).
ChunkOutcomes ==
    {[kind |-> "data", data |-> r] : r \in ChunkResponses}
    \cup {[kind |-> k, data |-> EmptyDict] : k \in {"none", "exception"}}

\* `for chunk_index, result in results`, geosphere.py lines 137-144, from
\* entry i on: unpacking an exception object raises TypeError.
RECURSIVE collect_all_data(_, _, _)
collect_all_data(results, i, acc) ==
    IF i > Len(results) THEN acc
    ELSE IF results[i].kind = "exception"
    THEN [all_data |-> acc.all_data, log |-> acc.log, raised |-> "TypeError"]
    ELSE IF results[i].kind = "data"
    THEN collect_all_data(results, i + 1,
                          [all_data |-> Append(acc.all_data, results[i].data),
                           log |-> acc.log, raised |-> None])
    ELSE collect_all_data(results, i + 1,
                          [all_data |-> acc.all_data,
                           log |-> Append(acc.log, WarningRecord("chunk returned no data")),
                           raised |-> None])

\* The log records of the fetch_chunk tasks: an error for each chunk whose
\* _make_api_call gave None or an empty document (`if chunk_data:`).
RECURSIVE chunk_log(_, _)
chunk_log(results, i) ==
    IF i > Len(results) THEN <<>>
    ELSE (IF results[i].kind = "none"
             \/ (results[i].kind = "data" /\ results[i].data = EmptyDict) THEN <<ErrorRecord("Failed to fetch data for chunk")>>
          ELSE <<>>) \o chunk_log(results, i + 1)

\* The try body, geosphere.py lines 94-155.  station_ids: what _fetch_station_ids returned;
\* results: one gathered result per chunk.
GeoSphereProvider_body(timestamp, station_ids, results, store_ok) ==
    IF Len(station_ids) = 0
    THEN Block(<<>>, <<ErrorRecord("No active station IDs available")>>, None)
    ELSE LET c == collect_all_data(results, 1,
                                   [all_data |-> <<>>, log |-> chunk_log(results, 1),
                                    raised |-> None])
         IN  IF c.raised # None THEN Block(<<>>, c.log, c.raised)
             ELSE IF c.all_data = <<>>
             THEN Block(<<>>, Append(c.log, ErrorRecord("Failed to fetch data from any chunk")),
                        None)
             ELSE Block(<<StoreCall(SlotFile(timestamp, "json"),
                                    _combine_chunk_data(c.all_data), store_ok)>>,
                        c.log, IF store_ok THEN None ELSE "StoreError")

GeoSphereProvider_fetch_job(timestamp, station_ids, results, store_ok) ==
    ExceptBaseException(GeoSphereProvider_body(timestamp, station_ids, results, store_ok))

(***************************************************************************)
(* The sub-requests a fetch_job starts                                     *)
(***************************************************************************)
\* One GET, or the task that makes it: what it asks for, and the ids
\* (stations, or a file) it is for.
Request(kind, ids) == [kind |-> kind, ids |-> ids]

\* metar.py line 26.
MetarSource_requests == <<Request("metar", <<>>)>>

\* ndbc.py lines 40 and 69-93: the sensor page, then one _fetch_archive task
\* per batch of station ids.
NdbcProvider_requests(raw_ok, decode_ok, station_ids, size) ==
    <<Request("sensors", <<>>)>>
    \o (IF raw_ok /\ decode_ok /\ Len(station_ids) > 0 /\ ~ArgumentCheck(size)
        THEN LET b == batches(station_ids, 0, size)
             IN  [i \in 1 .. Len(b) |-> Request("batch", b[i])]
        ELSE <<>>)

\* dwd.py lines 65 and 82: the meta-file, then (unless the job returns at
\* line 71) the directory listing and, when it answers 200, one download_file
\* task per listed file.
DWDProvider_requests(last, current_checksum, listing_ok, downloads) ==
    <<Request("meta", <<>>)>>
    \o (IF current_checksum # None /\ current_checksum = last THEN <<>>
        ELSE <<Request("listing", <<>>)>>
             \o (IF listing_ok THEN [i \in 1 .. Len(downloads) |-> Request("file", <<i>>)]
                 ELSE <<>>))

\* fsdiopendata.py lines 60 and 72: the STAC document, then one
\* download_csv_file task per feature.
FSDIOpenDataProvider_requests(stac_ok, stac_saved, downloads) ==
    <<Request("stac", <<>>)>>
    \o (IF stac_ok /\ stac_saved THEN [i \in 1 .. Len(downloads) |-> Request("file", <<i>>)]
        ELSE <<>>)

\* geosphere.py lines 95 and 105-133: the station metadata, then one
\* fetch_chunk task per chunk of station ids.
GeoSphereProvider_requests(station_ids) ==
    <<Request("stations", <<>>)>>
    \o (LET c == station_id_chunks(station_ids, 0)
        IN  [i \in 1 .. Len(c) |-> Request("chunk", c[i])])

(***************************************************************************)
(* A provider instance and the calls of its fetch_job                      *)
(***************************************************************************)
\* No provider has been created.
JobsIdle ==
    /\ provider = None
    /\ _last_meta_checksum = None
    /\ _download_batch_size = 0
    /\ job_count = 0
    /\ job_timestamp = 0
    /\ job_store_calls = <<>>
    /\ job_log = <<>>
    /\ job_propagated = None
    /\ job_requests = <<>>
    /\ job_station_ids = <<>>
    /\ job_current_checksum = None
    /\ job_results = <<>>

\* A provider was constructed (__init__) and no fetch_job has run.
JobsInit ==
    /\ provider \in Providers
    /\ _last_meta_checksum = None
    /\ _download_batch_size \in (IF provider = "NDBC" THEN BatchSizes ELSE {0})
    /\ job_count = 0
    /\ job_timestamp = 0
    /\ job_store_calls = <<>>
    /\ job_log = <<>>
    /\ job_propagated = None
    /\ job_requests = <<>>
    /\ job_station_ids = <<>>
    /\ job_current_checksum = None
    /\ job_results = <<>>

\* The timestamps a fetch_job call can be given: the slot of the scheduling
\* loop when the loop makes the call, any slot otherwise.
JobSlots == IF run_pc = "running" THEN {next_slot} ELSE Slots

\* The values to try for an input the call may not get to read.
IfRead(read, values, default) == IF read THEN values ELSE {default}

\* The effect of one fetch_job(timestamp) call with the given outcome.
JobDone(timestamp, outcome) ==
    /\ job_count < MaxJobs
    /\ job_count' = job_count + 1
    /\ job_timestamp' = timestamp
    /\ job_store_calls' = outcome.calls
    /\ job_log' = outcome.log
    /\ job_propagated' = outcome.propagated
    /\ UNCHANGED <<provider, _download_batch_size>>
    /\ UNCHANGED notJobs

MetarFetchJob ==
    /\ provider = "METAR"
    /\ \E timestamp \in JobSlots, data \in HttpGetOutcomes, gunzip_ok \in BOOLEAN,
          store_ok \in BOOLEAN :
          /\ JobDone(timestamp,
                     MetarSource_fetch_job(timestamp, data, gunzip_ok, store_ok))
          /\ job_results' = <<data>>
    /\ job_requests' = MetarSource_requests
    /\ job_station_ids' = <<>>
    /\ UNCHANGED <<_last_meta_checksum, job_current_checksum>>

NdbcFetchJob ==
    /\ provider = "NDBC"
    /\ \E timestamp \in JobSlots, raw_ok \in BOOLEAN :
          \E decode_ok \in IfRead(raw_ok, BOOLEAN, TRUE) :
          \E station_ids \in IfRead(raw_ok /\ decode_ok, StationLists, <<>>) :
          \E downloaded_data \in
                [1 .. NumBatches(station_ids, _download_batch_size) -> ArchiveOutcomes] :
          \E store_fails_at \in
                IfRead(\E i \in DOMAIN downloaded_data : downloaded_data[i].kind = "tar",
                       StoreFailures, 0) :
             /\ JobDone(timestamp,
                        NdbcProvider_fetch_job(raw_ok, decode_ok, station_ids,
                                               _download_batch_size, downloaded_data,
                                               store_fails_at))
             /\ job_requests' = NdbcProvider_requests(raw_ok, decode_ok, station_ids,
                                                      _download_batch_size)
             /\ job_station_ids' = IF raw_ok /\ decode_ok THEN station_ids ELSE <<>>
             /\ job_results' = IF raw_ok /\ decode_ok /\ Len(station_ids) > 0
                               THEN downloaded_data ELSE <<>>
    /\ UNCHANGED <<_last_meta_checksum, job_current_checksum>>

DwdFetchJob ==
    /\ provider = "DWD"
    /\ \E timestamp \in JobSlots, current_checksum \in Checksums \cup {None},
          listing_ok \in BOOLEAN :
          \E downloads \in IfRead(listing_ok, Downloads, <<>>) :
          \E archive_ok \in IfRead(downloaded_files(downloads, 1) # <<>>, BOOLEAN, TRUE) :
          \E store_ok \in IfRead(downloaded_files(downloads, 1) # <<>>, BOOLEAN, TRUE) :
          /\ JobDone(timestamp,
                     DWDProvider_fetch_job(timestamp, _last_meta_checksum, current_checksum,
                                           listing_ok, downloads, archive_ok, store_ok))
          /\ _last_meta_checksum' = DWDProvider_checksum(_last_meta_checksum, current_checksum)
          /\ job_requests' = DWDProvider_requests(_last_meta_checksum, current_checksum,
                                                  listing_ok, downloads)
          /\ job_station_ids' = <<>>
          /\ job_current_checksum' = current_checksum
          /\ job_results' =
                IF listing_ok /\ ~(current_checksum # None
                                   /\ current_checksum = _last_meta_checksum)
                THEN downloads ELSE <<>>

FsdiFetchJob ==
    /\ provider = "FSDIOpenData"
    /\ \E timestamp \in JobSlots, stac_ok \in BOOLEAN :
          \E stac_saved \in IfRead(stac_ok, BOOLEAN, TRUE) :
          \E downloads \in IfRead(stac_ok /\ stac_saved, Downloads, <<>>) :
          \E archive_ok \in IfRead(downloaded_files(downloads, 1) # <<>>, BOOLEAN, TRUE) :
          \E store_ok \in IfRead(downloaded_files(downloads, 1) # <<>>, BOOLEAN, TRUE) :
          /\ JobDone(timestamp,
                     FSDIOpenDataProvider_fetch_job(timestamp, stac_ok, stac_saved, downloads,
                                                    archive_ok, store_ok))
          /\ job_requests' = FSDIOpenDataProvider_requests(stac_ok, stac_saved, downloads)
          /\ job_station_ids' = <<>>
          /\ job_results' = IF stac_ok /\ stac_saved THEN downloads ELSE <<>>
    /\ UNCHANGED <<_last_meta_checksum, job_current_checksum>>

GeoFetchJob ==
    /\ provider = "GeoSphere"
    /\ \E timestamp \in JobSlots, n \in StationCounts :
          LET station_ids == [i \in 1 .. n |-> i]
          IN  \E results \in [1 .. Len(station_id_chunks(station_ids, 0)) -> ChunkOutcomes] :
              \E store_ok \in IfRead(\E i \in DOMAIN results : results[i].kind = "data",
                                      BOOLEAN, TRUE) :
                 /\ JobDone(timestamp,
                            GeoSphereProvider_fetch_job(timestamp, station_ids, results,
                                                        store_ok))
                 /\ job_requests' = GeoSphereProvider_requests(station_ids)
                 /\ job_station_ids' = station_ids
                 /\ job_results' = results
    /\ UNCHANGED <<_last_meta_checksum, job_current_checksum>>

\* One fetch_job call on the instance.
FetchJob ==
    \/ MetarFetchJob
    \/ DwdFetchJob
    \/ FsdiFetchJob
    \/ GeoFetchJob
    \/ NdbcFetchJob

(***************************************************************************)
(* The scheduling loop (BaseProvider.run): Idle, Waiting, Running           *)
(***************************************************************************)
\* The tick period of the instance, in seconds.
frequency == 600

\* `align(now, period)`
align(now, period) == now - (now % period)

\* The last slot the clock of the model reaches.
LastSlot == 3 * frequency

\* How long a fetch_job call can take: no time, a second, or a whole period
\* (the call overruns the following slot).
JobDurations == {0, 1, frequency}

\* The loop has not been started.
RunIdle ==
    /\ run_ticks = 0
    /\ run_pc = "idle"
    /\ run_completed = 0
    /\ run_now = 0
    /\ next_slot = 0

\* run is about to be called with a tick count of N at some instant of the
\* first period.
RunInit ==
    /\ run_ticks \in 0 .. MaxJobs
    /\ run_pc = "idle"
    /\ run_completed = 0
    /\ run_now \in {0, 1, frequency - 1}
    /\ next_slot = 0

\* Idle -> Waiting on start.
RunStart ==
    /\ run_pc = "idle"
    /\ run_pc' = "waiting"
    /\ UNCHANGED <<run_ticks, run_completed, run_now, next_slot>>
    /\ UNCHANGED <<jobVars, notJobs>>

\* In Waiting: with N ticks completed the loop stops; otherwise it computes
\* the next slot, sleeps next_slot - now seconds and wakes in Running.
RunWait ==
    /\ run_pc = "waiting"
    /\ IF run_completed < run_ticks
       THEN /\ next_slot' = align(run_now, frequency) + frequency
            /\ run_now' = run_now + (next_slot' - run_now)
            /\ run_pc' = "running"
       ELSE /\ run_pc' = "stopped"
            /\ UNCHANGED <<run_now, next_slot>>
    /\ UNCHANGED <<run_ticks, run_completed>>
    /\ UNCHANGED <<jobVars, notJobs>>

\* Waiting -> Running on wake: `fetch_job(next_slot)`, awaited to its end.
\* The loop has no handler around the call: an exception that leaves
\* fetch_job leaves run.
RunTick ==
    /\ run_pc = "running"
    /\ FetchJob
    /\ \E duration \in JobDurations :
          /\ run_completed + 1 < run_ticks => run_now + duration + frequency <= LastSlot
          /\ run_now' = run_now + duration
    /\ IF job_propagated' = None
       THEN /\ run_completed' = run_completed + 1
            /\ run_pc' = "waiting"
       ELSE /\ run_pc' = "raised"
            /\ UNCHANGED run_completed
    /\ UNCHANGED <<run_ticks, next_slot>>

RunNext ==
    \/ RunStart
    \/ RunWait
    \/ RunTick

\* A fetch_job call made directly on the instance, outside any loop.
MetarJob == MetarFetchJob /\ UNCHANGED runVars
DwdJob == DwdFetchJob /\ UNCHANGED runVars
FsdiJob == FsdiFetchJob /\ UNCHANGED runVars
GeoJob == GeoFetchJob /\ UNCHANGED runVars
NdbcJob == NdbcFetchJob /\ UNCHANGED runVars

JobsNext ==
    \/ MetarJob
    \/ DwdJob
    \/ FsdiJob
    \/ GeoJob
    \/ NdbcJob

(***************************************************************************)
(* ForecastDownloader.run (tools/forecast/downloader.py)                   *)
(***************************************************************************)
\* typing.Optional[int]: <<>> is None, <<n>> is the integer n.
NoneInt == <<>>
SomeInt(n) == <<n>>

\* `timestamp - (timestamp % period)`, rounding up to the boundary instead.
align_time_RoundsUp(timestamp, period) ==
    IF timestamp % period = 0 THEN timestamp ELSE timestamp - (timestamp % period) + period

\* `return timestamp - (timestamp % period)`
align_time(timestamp, period) == timestamp - (timestamp % period)

\* `snapshots_to_download is None or downloaded_snapshots <= snapshots_to_download`
keep_running_OffByOne(downloaded) ==
    snapshots_to_download = NoneInt \/ downloaded <= snapshots_to_download[1]

\* `snapshots_to_download is None or downloaded_snapshots < snapshots_to_download`
keep_running(downloaded) ==
    snapshots_to_download = NoneInt \/ downloaded < snapshots_to_download[1]

\* The files of a scratch directory.
FilesOf(dir) == {f[2] : f \in {g \in local_files : g[1] = dir}}

\* A removal that leaves the files of the directory where they are.
rmtree_KeepsFiles(files, dir) == files

\* `shutil.rmtree(path)`: the directory and its files are gone.
rmtree(files, dir) == {f \in files : f[1] # dir}

Zip(slot, files) == [slot |-> slot, files |-> files]

\* A removal that leaves the archive on disk.
remove_Nothing(zips, slot) == zips

\* `os.remove(archive_path)` (line 106): the zip of the slot is gone.
remove(zips, slot) == {z \in zips : z.slot # slot}

\* Lines 66-67 without the `+ self._download_period`: the slot just begun.
next_snapshot_at_CurrentSlot(now) == align_time(now, _download_period)

\* Lines 66-67: `current_snapshot = align_time(current_time, period)` and
\* `next_snapshot = current_snapshot + self._download_period`.
next_snapshot_at(now) == align_time(now, _download_period) + _download_period

\* No ForecastDownloader exists.
FdIdle ==
    /\ _download_period = 1
    /\ _s3_uri = None
    /\ _keep_local_snapshots = FALSE
    /\ _last_upload = 0
    /\ snapshots_to_download = NoneInt
    /\ downloaded_snapshots = 0
    /\ current_time = 0
    /\ next_snapshot = 0
    /\ wait_time = 0
    /\ fd_pc = "idle"
    /\ fd_now = 0
    /\ fd_error = None
    /\ get_forecast_calls = <<>>
    /\ local_files = {}
    /\ local_dirs = {}
    /\ local_zips = {}
    /\ uploads = <<>>

\* __init__ (lines 24-37) and the call of run (lines 55-62).  The download
\* path is empty, or holds a leftover directory for every slot name.
FdInit ==
    /\ _download_period \in 1 .. MaxPeriod
    /\ _s3_uri \in {None, "s3://bucket/forecast/"}
    /\ _keep_local_snapshots \in BOOLEAN
    /\ fd_now \in 0 .. MaxPeriod
    /\ _last_upload = fd_now
    /\ snapshots_to_download \in {NoneInt} \cup {SomeInt(n) : n \in 0 .. MaxSnapshots}
    /\ downloaded_snapshots = 0
    /\ current_time = 0
    /\ next_snapshot = 0
    /\ wait_time = 0
    /\ fd_pc = "while"
    /\ fd_error = None
    /\ get_forecast_calls = <<>>
    /\ local_dirs \in {{}, 1 .. MaxTime}
    /\ local_files = {<<d, "leftover">> : d \in local_dirs}
    /\ local_zips = {}
    /\ uploads = <<>>

\* Lines 64-71: the loop test and, when it holds, the slot and the wait.
FdWhile ==
    /\ fd_pc = "while"
    /\ IF keep_running(downloaded_snapshots)
       THEN /\ current_time' = fd_now
            /\ next_snapshot' = next_snapshot_at(current_time')
            /\ wait_time' = next_snapshot' - current_time'
            /\ fd_pc' = "sleep"
       ELSE /\ fd_pc' = "returned"
            /\ UNCHANGED <<current_time, next_snapshot, wait_time>>
    /\ UNCHANGED <<_download_period, _s3_uri, _keep_local_snapshots, _last_upload,
                   snapshots_to_download, downloaded_snapshots, fd_now, fd_error,
                   get_forecast_calls, local_files, local_dirs, local_zips, uploads>>
    /\ UNCHANGED notFd

\* Lines 72-74: asyncio.sleep(wait_time) returns after wait_time seconds, or
\* a second late; a wait that is not positive returns at once.
FdSleep ==
    /\ fd_pc = "sleep"
    /\ \E late \in {0, 1} :
          /\ fd_now' = fd_now + (IF wait_time > 0 THEN wait_time ELSE 0) + late
          /\ fd_now' <= MaxTime
    /\ _last_upload' = fd_now'
    /\ fd_pc' = "prepare"
    /\ UNCHANGED <<_download_period, _s3_uri, _keep_local_snapshots,
                   snapshots_to_download, downloaded_snapshots, current_time,
                   next_snapshot, wait_time, fd_error, get_forecast_calls, local_files,
                   local_dirs, local_zips, uploads>>
    /\ UNCHANGED notFd

\* Lines 76-80: rmtree(snapshot_path, ignore_errors=True), which may leave an
\* existing directory in place, then makedirs(snapshot_path, exist_ok=False).
FdPrepare ==
    /\ fd_pc = "prepare"
    /\ \E removed \in IfRead(next_snapshot \in local_dirs, BOOLEAN, TRUE) :
          IF removed
          THEN /\ local_files' = rmtree(local_files, next_snapshot)
               /\ local_dirs' = local_dirs \cup {next_snapshot}
               /\ fd_pc' = "get_forecast"
               /\ UNCHANGED fd_error
          ELSE /\ fd_pc' = "raised"
               /\ fd_error' = "FileExistsError"
               /\ UNCHANGED <<local_files, local_dirs>>
    /\ UNCHANGED <<_download_period, _s3_uri, _keep_local_snapshots, _last_upload,
                   snapshots_to_download, downloaded_snapshots, current_time,
                   next_snapshot, wait_time, fd_now, get_forecast_calls, local_zips,
                   uploads>>
    /\ UNCHANGED notFd

\* Lines 82-83 as if wrapped in a try whose handler goes on to the next
\* iteration of the loop.
FdGetForecast_Swallowed ==
    /\ fd_pc = "get_forecast"
    /\ get_forecast_calls' = Append(get_forecast_calls, next_snapshot)
    /\ \E duration \in {0, 1, _download_period} :
          /\ fd_now' = fd_now + duration
          /\ fd_now' <= MaxTime
    /\ \E raises \in BOOLEAN :
          IF raises
          THEN /\ fd_pc' = "while"
               /\ fd_error' = "ClientError"
               /\ local_files' = local_files \cup {<<next_snapshot, "partial">>}
          ELSE /\ fd_pc' = "archive"
               /\ local_files' = local_files \cup {<<next_snapshot, "forecast">>}
               /\ UNCHANGED fd_error
    /\ UNCHANGED <<_download_period, _s3_uri, _keep_local_snapshots, _last_upload,
                   snapshots_to_download, downloaded_snapshots, current_time,
                   next_snapshot, wait_time, local_dirs, local_zips, uploads>>
    /\ UNCHANGED notFd

\* Lines 82-83: `await client.get_forecast(download_path=snapshot_path, ...)`
\* takes some time and fills the directory, or raises.
FdGetForecast ==
    /\ fd_pc = "get_forecast"
    /\ get_forecast_calls' = Append(get_forecast_calls, next_snapshot)
    /\ \E duration \in {0, 1, _download_period} :
          /\ fd_now' = fd_now + duration
          /\ fd_now' <= MaxTime
    /\ \E raises \in BOOLEAN :
          IF raises
          THEN /\ fd_pc' = "raised"
               /\ fd_error' = "ClientError"
               /\ local_files' = local_files \cup {<<next_snapshot, "partial">>}
          ELSE /\ fd_pc' = "archive"
               /\ local_files' = local_files \cup {<<next_snapshot, "forecast">>}
               /\ UNCHANGED fd_error
    /\ UNCHANGED <<_download_period, _s3_uri, _keep_local_snapshots, _last_upload,
                   snapshots_to_download, downloaded_snapshots, current_time,
                   next_snapshot, wait_time, local_dirs, local_zips, uploads>>
    /\ UNCHANGED notFd

\* Lines 86-90: shutil.make_archive of the slot's directory.
FdArchive ==
    /\ fd_pc = "archive"
    /\ local_zips' = {z \in local_zips : z.slot # next_snapshot}
                       \cup {Zip(next_snapshot, FilesOf(next_snapshot))}
    /\ fd_pc' = "upload"
    /\ UNCHANGED <<_download_period, _s3_uri, _keep_local_snapshots, _last_upload,
                   snapshots_to_download, downloaded_snapshots, current_time,
                   next_snapshot, wait_time, fd_now, fd_error, get_forecast_calls,
                   local_files, local_dirs, uploads>>
    /\ UNCHANGED notFd

\* Lines 93-94 without the test of line 92: the upload is always made.
FdUpload_Unconditional ==
    /\ fd_pc = "upload"
    /\ \E raises \in BOOLEAN :
          IF raises
          THEN /\ fd_pc' = "raised"
               /\ fd_error' = "UploadError"
               /\ UNCHANGED uploads
          ELSE /\ fd_pc' = "collected"
               /\ uploads' = Append(uploads, Zip(next_snapshot, FilesOf(next_snapshot)))
               /\ UNCHANGED fd_error
    /\ UNCHANGED <<_download_period, _s3_uri, _keep_local_snapshots, _last_upload,
                   snapshots_to_download, downloaded_snapshots, current_time,
                   next_snapshot, wait_time, fd_now, get_forecast_calls, local_files,
                   local_dirs, local_zips>>
    /\ UNCHANGED notFd

\* Lines 92-94: the upload, when a destination is configured; it may raise.
FdUpload ==
    /\ fd_pc = "upload"
    /\ IF _s3_uri # None
       THEN \E raises \in BOOLEAN :
               IF raises
               THEN /\ fd_pc' = "raised"
                    /\ fd_error' = "UploadError"
                    /\ UNCHANGED uploads
               ELSE /\ fd_pc' = "collected"
                    /\ uploads' = Append(uploads, Zip(next_snapshot, FilesOf(next_snapshot)))
                    /\ UNCHANGED fd_error
       ELSE /\ fd_pc' = "collected"
            /\ UNCHANGED <<uploads, fd_error>>
    /\ UNCHANGED <<_download_period, _s3_uri, _keep_local_snapshots, _last_upload,
                   snapshots_to_download, downloaded_snapshots, current_time,
                   next_snapshot, wait_time, fd_now, get_forecast_calls, local_files,
                   local_dirs, local_zips>>
    /\ UNCHANGED notFd

\* Lines 96-108: the slot is counted; unless local snapshots are kept, its
\* directory and its zip are removed.
FdCollected ==
    /\ fd_pc = "collected"
    /\ downloaded_snapshots' = downloaded_snapshots + 1
    /\ IF ~_keep_local_snapshots
       THEN /\ local_files' = rmtree(local_files, next_snapshot)
            /\ local_dirs' = local_dirs \ {next_snapshot}
            /\ local_zips' = remove(local_zips, next_snapshot)
       ELSE UNCHANGED <<local_files, local_dirs, local_zips>>
    /\ _last_upload' = fd_now
    /\ fd_pc' = "while"
    /\ UNCHANGED <<_download_period, _s3_uri, _keep_local_snapshots,
                   snapshots_to_download, current_time, next_snapshot, wait_time,
                   fd_now, fd_error, get_forecast_calls, uploads>>
    /\ UNCHANGED notFd

FdNext ==
    \/ FdWhile
    \/ FdSleep
    \/ FdPrepare
    \/ FdGetForecast
    \/ FdArchive
    \/ FdUpload
    \/ FdCollected

(***************************************************************************)
(* The sensors entry point (tools/sensors/__main__.py)                     *)
(***************************************************************************)
\* Text is a sequence of pieces; "://" is one piece, so that a prefix test
\* on pieces is the prefix test on characters.
S3Prefix == <<"s3", "://">>
FilePrefix == <<"file", "://">>

\* Values of --storage-uri.
StorageUris ==
    { <<"s3", "://", "bucket/sensors">>,
      <<"s3", "://">>,
      <<"file", "://", "/data/out">>,
      <<"file", "://", "/data/", "file", "://", "out">>,
      <<"S3", "://", "bucket">>,
      <<"gs", "://", "bucket">>,
      <<"http", "://", "host/", "s3", "://", "bucket">>,
      <<" ", "s3", "://", "bucket">>,
      <<"s3", ":/", "bucket">>,
      <<"file", ":", "/data">>,
      <<"/data/out">>,
      <<>> }

\* The subcommands of the parser (lines 74-95) and the classes their
\* creators construct (lines 31-57); None when no subcommand is given.
Commands == {"metar", "geosphere", "dwd", "fsdiopendata", "tao-triton"}

ProviderClass(cmd) ==
    CASE cmd = "metar" -> "MetarSource"
      [] cmd = "geosphere" -> "GeoSphereProvider"
      [] cmd = "dwd" -> "DWDProvider"
      [] cmd = "fsdiopendata" -> "FSDIOpenDataProvider"
      [] cmd = "tao-triton" -> "TaoTritonProvider"

\* str.startswith
startswith(text, prefix) ==
    /\ Len(text) >= Len(prefix)
    /\ SubSeq(text, 1, Len(prefix)) = prefix

\* str.replace(old, ""): every occurrence of old is removed, left to right.
RECURSIVE remove_all(_, _)
remove_all(text, old) ==
    IF text = <<>> THEN <<>>
    ELSE IF startswith(text, old)
         THEN remove_all(SubSeq(text, Len(old) + 1, Len(text)), old)
         ELSE <<Head(text)>> \o remove_all(Tail(text), old)

PublisherValue(kind, arg) == [kind |-> kind, arg |-> arg]
NoPublisher == PublisherValue("None", <<>>)

\* _create_publisher with an else branch that falls back to the local sink.
_create_publisher_DefaultsToFile(uri) ==
    IF startswith(uri, S3Prefix)
    THEN PublisherValue("S3Publisher", uri)
    ELSE PublisherValue("FilePublisher", remove_all(uri, FilePrefix))

\* _create_publisher (lines 22-28); the raised ValueError is the third kind.
_create_publisher(uri) ==
    IF startswith(uri, S3Prefix)
    THEN PublisherValue("S3Publisher", uri)
    ELSE IF startswith(uri, FilePrefix)
         THEN PublisherValue("FilePublisher", remove_all(uri, FilePrefix))
         ELSE PublisherValue("ValueError", uri)

\* The entry point is not running.
MainIdle ==
    /\ storage_uri = <<>>
    /\ command = None
    /\ main_pc = "idle"
    /\ publisher = NoPublisher
    /\ main_provider = None
    /\ main_runs = 0
    /\ main_error = None

\* parser.parse_args() (line 97) has returned.
MainInit ==
    /\ storage_uri \in StorageUris
    /\ command \in Commands \cup {None}
    /\ main_pc = "main"
    /\ publisher = NoPublisher
    /\ main_provider = None
    /\ main_runs = 0
    /\ main_error = None

\* Line 61, `args.func(args)`, up to the creator's first statement,
\* `publisher = _create_publisher(args)`; without a subcommand args has no
\* attribute func.
MainCreatePublisher ==
    /\ main_pc = "main"
    /\ IF command = None
       THEN /\ main_error' = "AttributeError"
            /\ main_pc' = "raised"
            /\ UNCHANGED publisher
       ELSE LET result == _create_publisher(storage_uri)
            IN  IF result.kind = "ValueError"
                THEN /\ main_error' = "ValueError"
                     /\ main_pc' = "raised"
                     /\ UNCHANGED publisher
                ELSE /\ publisher' = result
                     /\ main_pc' = "creator"
                     /\ UNCHANGED main_error
    /\ UNCHANGED <<storage_uri, command, main_provider, main_runs>>
    /\ UNCHANGED notMain

\* The creator's return statement (lines 33, 38-39, 44-45, 50-51, 56-57).
MainCreateProvider ==
    /\ main_pc = "creator"
    /\ main_provider' = ProviderClass(command)
    /\ main_pc' = "created"
    /\ UNCHANGED <<storage_uri, command, publisher, main_runs, main_error>>
    /\ UNCHANGED notMain

\* Line 62: `await provider.run()`.
MainRun ==
    /\ main_pc = "created"
    /\ main_runs' = main_runs + 1
    /\ main_pc' = "running"
    /\ UNCHANGED <<storage_uri, command, publisher, main_provider, main_error>>
    /\ UNCHANGED notMain

MainNext ==
    \/ MainCreatePublisher
    \/ MainCreateProvider
    \/ MainRun

(***************************************************************************)
(* The scratch directory of a DWDProvider / FSDIOpenDataProvider job, step *)
(* by step: dwd.py lines 63-100 and 131-229, fsdiopendata.py lines 53-90   *)
(* and 124-233.  Files are named by numbers: a downloaded file by its      *)
(* place in the listing, and the two below.                                *)
(***************************************************************************)
\* stac_response.json and "{timestamp}.zip" in the scratch directory.
StacFile == 0
ZipFile == -1

ScratchProviders == {"DWD", "FSDIOpenData"}

NoArchive == [state |-> "none", members |-> <<>>]

\* `await asyncio.gather(*tasks, ...)` resuming as soon as one task is done.
gather_done_FirstCompleted(ts) == ts = <<>> \/ \E i \in DOMAIN ts : ts[i] # "pending"

\* `await asyncio.gather(*tasks, return_exceptions=True)` resumes when every
\* task has finished.
gather_done(ts) == \A i \in DOMAIN ts : ts[i] # "pending"

\* The file_paths handed to _create_combined_archive: the collected downloads,
\* after stac_response.json for FSDIOpenDataProvider.
file_paths(p, ts) ==
    (IF p = "FSDIOpenData" THEN <<StacFile>> ELSE <<>>) \o downloaded_files(ts, 1)

\* A scratch directory made with tempfile.mkdtemp(): nothing removes it.
TemporaryDirectory_cleanup_Mkdtemp(files) == files

\* TemporaryDirectory.__exit__: the directory and everything in it is removed.
TemporaryDirectory_cleanup(files) == {}

\* No such job is running.
ScratchIdle ==
    /\ scratch_provider = None
    /\ scratch_pc = "idle"
    /\ temp_dir = FALSE
    /\ temp_files = {}
    /\ tasks = <<>>
    /\ archive = NoArchive
    /\ archive_content = <<>>
    /\ scratch_store_calls = <<>>
    /\ scratch_raised = None
    /\ scratch_log = <<>>

\* fetch_job was called and has entered its try statement.
ScratchInit ==
    /\ scratch_provider \in ScratchProviders
    /\ scratch_pc = "try"
    /\ temp_dir = FALSE
    /\ temp_files = {}
    /\ tasks = <<>>
    /\ archive = NoArchive
    /\ archive_content = <<>>
    /\ scratch_store_calls = <<>>
    /\ scratch_raised = None
    /\ scratch_log = <<>>

\* dwd.py lines 64-80: the checksum test, which may return before any
\* directory is made, then `with tempfile.TemporaryDirectory()`;
\* fsdiopendata.py line 58.
ScratchEnter ==
    /\ scratch_pc = "try"
    /\ \E unchanged \in IfRead(scratch_provider = "DWD", BOOLEAN, FALSE) :
          IF unchanged
          THEN /\ scratch_pc' = "returned"
               /\ UNCHANGED temp_dir
          ELSE /\ temp_dir' = TRUE
               /\ scratch_pc' = "first_request"
    /\ UNCHANGED <<scratch_provider, temp_files, tasks, archive, archive_content,
                   scratch_store_calls, scratch_raised, scratch_log>>
    /\ UNCHANGED notScratch

\* dwd.py lines 148-195: the directory listing and the creation of one task
\* per listed file.  fsdiopendata.py lines 60-72 and 124-201: the STAC
\* document, which may be empty (return inside the with) or fail to be
\* written, then one task per feature.
ScratchFirstRequest ==
    /\ scratch_pc = "first_request"
    /\ \E outcome \in {"ok", "failed"} \cup
                      IfRead(scratch_provider = "FSDIOpenData", {"not_saved"}, "ok") :
       \E k \in IfRead(outcome = "ok", 0 .. MaxFiles, 0) :
          /\ tasks' = IF outcome = "ok" THEN [i \in 1 .. k |-> "pending"] ELSE <<>>
          /\ temp_files' = IF scratch_provider = "FSDIOpenData" /\ outcome # "failed"
                           THEN temp_files \cup {StacFile} ELSE temp_files
          /\ scratch_raised' = IF outcome = "not_saved" THEN "OSError" ELSE None
          /\ scratch_log' =
                IF outcome = "failed"
                THEN Append(scratch_log,
                            ErrorRecord(IF scratch_provider = "DWD"
                                        THEN "Failed to access DWD directory"
                                        ELSE "Failed to fetch STAC API data"))
                ELSE scratch_log
          /\ scratch_pc' =
                IF outcome = "ok" THEN "gather"
                ELSE IF outcome = "failed" /\ scratch_provider = "DWD" THEN "collected"
                ELSE "exit"
    /\ UNCHANGED <<scratch_provider, temp_dir, archive, archive_content,
                   scratch_store_calls>>
    /\ UNCHANGED notScratch

\* One download task finishes (dwd.py lines 166-192, fsdiopendata.py lines
\* 147-198): it has written its file and returns the path, or returns None.
ScratchTaskDone(i) ==
    /\ scratch_pc = "gather"
    /\ i \in DOMAIN tasks
    /\ tasks[i] = "pending"
    /\ \E outcome \in FileOutcomes :
          /\ tasks' = [tasks EXCEPT ![i] = outcome]
          /\ temp_files' = IF outcome = "ok" THEN temp_files \cup {i} ELSE temp_files
    /\ UNCHANGED <<scratch_provider, scratch_pc, temp_dir, archive, archive_content,
                   scratch_store_calls, scratch_raised, scratch_log>>
    /\ UNCHANGED notScratch

\* gather resumes and the results are collected (dwd.py lines 196-212,
\* fsdiopendata.py lines 202-216).
ScratchGathered ==
    /\ scratch_pc = "gather"
    /\ gather_done(tasks)
    /\ scratch_pc' = "collected"
    /\ UNCHANGED <<scratch_provider, temp_dir, temp_files, tasks, archive,
                   archive_content, scratch_store_calls, scratch_raised, scratch_log>>
    /\ UNCHANGED notScratch

\* `if downloaded_files:` (dwd.py lines 84-86 and 97, fsdiopendata.py lines
\* 74-76 and 87) and, when it holds, zipfile.ZipFile(archive_path, "w"), which
\* may raise.
ScratchCollected ==
    /\ scratch_pc = "collected"
    /\ IF downloaded_files(tasks, 1) = <<>>
       THEN /\ scratch_log' = Append(scratch_log, ErrorRecord("Failed to download any files"))
            /\ scratch_pc' = "exit"
            /\ UNCHANGED <<archive, temp_files, scratch_raised>>
       ELSE \E opened \in BOOLEAN :
               IF opened
               THEN /\ archive' = [state |-> "open", members |-> <<>>]
                    /\ temp_files' = temp_files \cup {ZipFile}
                    /\ scratch_pc' = "archive"
                    /\ UNCHANGED <<scratch_raised, scratch_log>>
               ELSE /\ scratch_raised' = "OSError"
                    /\ scratch_pc' = "exit"
                    /\ UNCHANGED <<archive, temp_files, scratch_log>>
    /\ UNCHANGED <<scratch_provider, temp_dir, tasks, archive_content,
                   scratch_store_calls>>
    /\ UNCHANGED notScratch

\* One `archive.write(file_path, ...)` of _create_combined_archive (dwd.py
\* lines 225-229, fsdiopendata.py lines 229-233), which may raise; leaving the
\* with statement closes the zip file either way.
ScratchArchiveWrite ==
    /\ scratch_pc = "archive"
    /\ Len(archive.members) < Len(file_paths(scratch_provider, tasks))
    /\ \E written \in BOOLEAN :
          IF written
          THEN /\ archive' =
                     [archive EXCEPT !.members =
                         Append(@, file_paths(scratch_provider, tasks)[Len(@) + 1])]
               /\ UNCHANGED <<scratch_pc, scratch_raised>>
          ELSE /\ archive' = [archive EXCEPT !.state = "closed"]
               /\ scratch_raised' = "OSError"
               /\ scratch_pc' = "exit"
    /\ UNCHANGED <<scratch_provider, temp_dir, temp_files, tasks, archive_content,
                   scratch_store_calls, scratch_log>>
    /\ UNCHANGED notScratch

\* The loop of _create_combined_archive is over and its with statement closes
\* the zip file.
ScratchArchiveClose ==
    /\ scratch_pc = "archive"
    /\ Len(archive.members) = Len(file_paths(scratch_provider, tasks))
    /\ archive' = [archive EXCEPT !.state = "closed"]
    /\ scratch_pc' = "read"
    /\ UNCHANGED <<scratch_provider, temp_dir, temp_files, tasks, archive_content,
                   scratch_store_calls, scratch_raised, scratch_log>>
    /\ UNCHANGED notScratch

\* `with open(archive_path, "rb") as f: archive_content = f.read()` (dwd.py
\* lines 90-91, fsdiopendata.py lines 80-81).
ScratchRead ==
    /\ scratch_pc = "read"
    /\ archive_content' = archive.members
    /\ scratch_pc' = "store"
    /\ UNCHANGED <<scratch_provider, temp_dir, temp_files, tasks, archive,
                   scratch_store_calls, scratch_raised, scratch_log>>
    /\ UNCHANGED notScratch

\* `await self._store_file(f"{timestamp}.zip", archive_content)` (dwd.py line
\* 93, fsdiopendata.py line 83), which may raise.
ScratchStore ==
    /\ scratch_pc = "store"
    /\ scratch_store_calls' = Append(scratch_store_calls, archive_content)
    /\ \E ok \in BOOLEAN :
          scratch_raised' = IF ok THEN None ELSE "StoreError"
    /\ scratch_pc' = "exit"
    /\ UNCHANGED <<scratch_provider, temp_dir, temp_files, tasks, archive,
                   archive_content, scratch_log>>
    /\ UNCHANGED notScratch

\* The with statement of the TemporaryDirectory is left, by its end, by a
\* return or by an exception.
ScratchExit ==
    /\ scratch_pc = "exit"
    /\ temp_files' = TemporaryDirectory_cleanup(temp_files)
    /\ temp_dir' = (temp_files' # {})
    /\ archive' = IF ZipFile \in temp_files' THEN archive ELSE NoArchive
    /\ scratch_pc' = IF scratch_raised # None THEN "except" ELSE "returned"
    /\ UNCHANGED <<scratch_provider, tasks, archive_content, scratch_store_calls,
                   scratch_raised, scratch_log>>
    /\ UNCHANGED notScratch

\* `except BaseException as e: logging.error(...)` (dwd.py lines 99-100,
\* fsdiopendata.py lines 89-90).
ScratchExcept ==
    /\ scratch_pc = "except"
    /\ scratch_log' = Append(scratch_log, ErrorRecord(scratch_raised))
    /\ scratch_pc' = "returned"
    /\ UNCHANGED <<scratch_provider, temp_dir, temp_files, tasks, archive,
                   archive_content, scratch_store_calls, scratch_raised>>
    /\ UNCHANGED notScratch

ScratchNext ==
    \/ ScratchEnter
    \/ ScratchFirstRequest
    \/ \E i \in 1 .. MaxFiles : ScratchTaskDone(i)
    \/ ScratchGathered
    \/ ScratchCollected
    \/ ScratchArchiveWrite
    \/ ScratchArchiveClose
    \/ ScratchRead
    \/ ScratchStore
    \/ ScratchExit
    \/ ScratchExcept

(***************************************************************************)
(* The concurrent chunk requests of a GeoSphereProvider job, task by task: *)
(* geosphere.py lines 128-155                                              *)
(***************************************************************************)
\* What gather would hold if it listed the gathered_results as the tasks finish.
gather_results_AsCompleted(outcomes, order) ==
    [k \in 1 .. Len(outcomes) |-> outcomes[order[k]]]

\* `results = await asyncio.gather(*jobs, return_exceptions=True)`: one
\* result per job, in the order of the jobs, whatever order they finished in.
gather_results(outcomes, order) == outcomes

\* No such job is running.
ChunksIdle ==
    /\ fetch_chunk_outcomes = <<>>
    /\ completion_order = <<>>
    /\ chunks_pc = "idle"
    /\ gathered_results = <<>>
    /\ stored_documents = <<>>
    /\ chunks_raised = None

\* Lines 128-133: the jobs were created, one per chunk, and gather awaits
\* them; what each will end with is the assignment of responses to chunks.
ChunksInit ==
    /\ fetch_chunk_outcomes \in UNION {[1 .. n -> ChunkOutcomes] : n \in 1 .. MaxChunks}
    /\ completion_order = <<>>
    /\ chunks_pc = "gather"
    /\ gathered_results = <<>>
    /\ stored_documents = <<>>
    /\ chunks_raised = None

\* One fetch_chunk task finishes (lines 110-126).
FetchChunkDone(i) ==
    /\ chunks_pc = "gather"
    /\ i \in DOMAIN fetch_chunk_outcomes
    /\ i \notin Range(completion_order)
    /\ completion_order' = Append(completion_order, i)
    /\ UNCHANGED <<fetch_chunk_outcomes, chunks_pc, gathered_results, stored_documents,
                   chunks_raised>>
    /\ UNCHANGED notChunks

\* Line 133: every task has finished and gather returns.
ChunksGathered ==
    /\ chunks_pc = "gather"
    /\ Len(completion_order) = Len(fetch_chunk_outcomes)
    /\ gathered_results' = gather_results(fetch_chunk_outcomes, completion_order)
    /\ chunks_pc' = "process"
    /\ UNCHANGED <<fetch_chunk_outcomes, completion_order, stored_documents,
                   chunks_raised>>
    /\ UNCHANGED notChunks

\* Lines 136-158: the results are collected and, when there are any, merged
\* and stored; an exception is logged by the handler of the try statement.
ChunksProcess ==
    /\ chunks_pc = "process"
    /\ LET c == collect_all_data(gathered_results, 1,
                                 [all_data |-> <<>>, log |-> <<>>, raised |-> None])
       IN  IF c.raised # None
           THEN /\ chunks_raised' = c.raised
                /\ UNCHANGED stored_documents
           ELSE IF c.all_data = <<>>
           THEN UNCHANGED <<stored_documents, chunks_raised>>
           ELSE /\ stored_documents' =
                      Append(stored_documents, _combine_chunk_data(c.all_data))
                /\ \E store_ok \in BOOLEAN :
                      chunks_raised' = IF store_ok THEN None ELSE "StoreError"
    /\ chunks_pc' = "returned"
    /\ UNCHANGED <<fetch_chunk_outcomes, completion_order, gathered_results>>
    /\ UNCHANGED notChunks

ChunksNext ==
    \/ \E i \in 1 .. MaxChunks : FetchChunkDone(i)
    \/ ChunksGathered
    \/ ChunksProcess

(***************************************************************************)
(* GeoSphereProvider._construct_api_url (geosphere.py lines 203-243)       *)
(*                                                                         *)
(* A datetime is a record of its calendar fields; the URL is the three     *)
(* parameters that vary: the joined station ids and the two rendered       *)
(* times.                                                                  *)
(***************************************************************************)
\* The calendar date of a day number counted from 1970-01-01, in the
\* proleptic Gregorian calendar datetime uses.
civil_from_days(days) ==
    LET z == days + 719468
        era == z \div 146097
        doe == z - era * 146097
        yoe == (doe - (doe \div 1460) + (doe \div 36524) - (doe \div 146096)) \div 365
        doy == doe - (365 * yoe + (yoe \div 4) - (yoe \div 100))
        mp == (5 * doy + 2) \div 153
        month == IF mp < 10 THEN mp + 3 ELSE mp - 9
    IN  [year |-> yoe + era * 400 + (IF month <= 2 THEN 1 ELSE 0),
         month |-> month,
         day |-> doy - ((153 * mp + 2) \div 5) + 1]

\* The day number of a calendar date.
days_from_civil(year, month, day) ==
    LET y == IF month <= 2 THEN year - 1 ELSE year
        era == y \div 400
        yoe == y - era * 400
        doy == ((153 * (IF month > 2 THEN month - 3 ELSE month + 9) + 2) \div 5) + day - 1
        doe == yoe * 365 + (yoe \div 4) - (yoe \div 100) + doy
    IN  era * 146097 + doe - 719468

\* The datetime that is the given number of seconds after 1970-01-01T00:00:00.
datetime(seconds) ==
    LET date == civil_from_days(seconds \div 86400)
        rest == seconds % 86400
    IN  [year |-> date.year, month |-> date.month, day |-> date.day,
         hour |-> rest \div 3600, minute |-> (rest % 3600) \div 60, second |-> rest % 60]

\* Seconds from 1970-01-01T00:00:00 to a datetime.
total_seconds(d) ==
    days_from_civil(d.year, d.month, d.day) * 86400
    + d.hour * 3600 + d.minute * 60 + d.second

\* dt.datetime.fromtimestamp(timestamp) on a host whose clock is one hour
\* ahead of UTC.
utcfromtimestamp_LocalTime(timestamp) == datetime(timestamp + 3600)

\* `dt.datetime.utcfromtimestamp(timestamp)`
utcfromtimestamp(timestamp) == datetime(timestamp)

\* `dt.timedelta(hours=h)`, in seconds, and `datetime + timedelta`.
timedelta(hours) == hours * 3600
plus(d, delta) == datetime(total_seconds(d) + delta)

\* `strftime("%Y-%m-%dT%H:%M")`: the text, as its five numbers; the seconds
\* are not rendered.
strftime(d) == <<d.year, d.month, d.day, d.hour, d.minute>>

\* `",".join(station_ids)`, as the pieces of the text.
RECURSIVE join(_, _)
join(sep, ids) ==
    IF ids = <<>> THEN <<>>
    ELSE IF Len(ids) = 1 THEN <<ids[1]>>
    ELSE <<ids[1], sep>> \o join(sep, Tail(ids))

\* The URL _construct_api_url returns (lines 221-243).
_construct_api_url(timestamp, station_ids) ==
    LET dt_obj == utcfromtimestamp(timestamp)
        start_time == plus(dt_obj, 0 - timedelta(3))
        end_time == plus(dt_obj, timedelta(3))
    IN  [station_ids |-> join(",", station_ids),
         start |-> strftime(start_time),
         end |-> strftime(end_time)]

\* Timestamps: the epoch and its first seconds, the one of the test, and
\* ones whose window crosses midnight, a leap day, a month or a year.
UrlTimestamps ==
    {0, 59, 600, 10799, 10800, 1705312800, 1705312859, 1709164800, 1709168400,
     1709254800, 1704067200, 951782400, 951872400, 1735689599, 1735689600, 86399}

\* Station id lists of one chunk.
UrlStationIds ==
    {<<>>, <<"11035">>, <<"11035", "11037">>, <<"11037", "11035">>,
     <<"11035", "11035">>, <<"11035", "11037", "11038">>, <<"11038", "11037", "11035">>}

NoUrl == [station_ids |-> <<>>, start |-> <<>>, end |-> <<>>]

\* No call of _construct_api_url is in progress.
UrlIdle ==
    /\ url_timestamp = 0
    /\ url_station_ids = <<>>
    /\ url_pc = "idle"
    /\ url = NoUrl

\* _construct_api_url was called.
UrlInit ==
    /\ url_timestamp \in UrlTimestamps
    /\ url_station_ids \in UrlStationIds
    /\ url_pc = "called"
    /\ url = NoUrl

UrlReturn ==
    /\ url_pc = "called"
    /\ url' = _construct_api_url(url_timestamp, url_station_ids)
    /\ url_pc' = "returned"
    /\ UNCHANGED <<url_timestamp, url_station_ids>>
    /\ UNCHANGED notUrl

UrlNext == UrlReturn

(***************************************************************************)
(* GeoSphereProvider._fetch_station_ids (geosphere.py lines 41-81)         *)
(*                                                                         *)
(* A station of the metadata document is a record of its keys; the key     *)
(* "is_active" may be absent.                                              *)
(***************************************************************************)
MetadataIds == {"11035", "11036", "11037"}

MetadataStations ==
    {[id |-> i] : i \in MetadataIds}
    \cup {[id |-> i, is_active |-> a] : i \in MetadataIds, a \in BOOLEAN}

MetadataStationLists ==
    UNION {[1 .. n -> MetadataStations] : n \in 0 .. MaxMetadataStations}

\* What the metadata request does: session.get raises, or answers with a
\* status; response.json() raises, or gives a document with or without the
\* key "stations".
MetadataResponses ==
    {[raises |-> TRUE, status |-> 0, json_raises |-> FALSE, data |-> [title |-> "none"]]}
    \cup {[raises |-> FALSE, status |-> st, json_raises |-> FALSE, data |-> [title |-> "none"]] :
            st \in {404, 500}}
    \cup {[raises |-> FALSE, status |-> 200, json_raises |-> TRUE, data |-> [title |-> "none"]]}
    \cup {[raises |-> FALSE, status |-> 200, json_raises |-> FALSE, data |-> [title |-> "metadata"]]}
    \cup {[raises |-> FALSE, status |-> 200, json_raises |-> FALSE, data |-> [stations |-> l]] :
            l \in MetadataStationLists}

\* `station.get(key, default)`
get(station, key, default) == IF key \in DOMAIN station THEN station[key] ELSE default

\* The list of every station, whatever its flag.
active_stations_Unfiltered(stations) == stations

\* `[station for station in stations if station.get("is_active", False)]`
active_stations(stations) == SelectSeq(stations, LAMBDA station : get(station, "is_active", FALSE))

\* `[station["id"] for station in active_stations]`
station_ids_of(stations) == [i \in 1 .. Len(stations) |-> stations[i].id]

\* The body of the try (lines 51-77): the value returned, or raised = TRUE
\* when an exception leaves it.
_fetch_station_ids_body(response) ==
    IF response.raises THEN [raised |-> TRUE, value |-> <<>>]
    ELSE IF response.status = 200
    THEN IF response.json_raises THEN [raised |-> TRUE, value |-> <<>>]
         ELSE IF "stations" \in DOMAIN response.data
         THEN [raised |-> FALSE,
               value |-> station_ids_of(active_stations(response.data.stations))]
         ELSE [raised |-> FALSE, value |-> <<>>]
    ELSE [raised |-> FALSE, value |-> <<>>]

\* _fetch_station_ids: `except BaseException` (lines 79-81) returns [].
_fetch_station_ids(response) ==
    LET body == _fetch_station_ids_body(response)
    IN  IF body.raised THEN [raised |-> FALSE, value |-> <<>>] ELSE body

\* No call of _fetch_station_ids is in progress.
MetadataIdle ==
    /\ metadata_response = [raises |-> TRUE, status |-> 0, json_raises |-> FALSE, data |-> [title |-> "none"]]
    /\ metadata_pc = "idle"
    /\ metadata_station_ids = <<>>

\* _fetch_station_ids was called.
MetadataInit ==
    /\ metadata_response \in MetadataResponses
    /\ metadata_pc = "called"
    /\ metadata_station_ids = <<>>

FetchStationIds ==
    /\ metadata_pc = "called"
    /\ LET outcome == _fetch_station_ids(metadata_response)
       IN  /\ metadata_pc' = IF outcome.raised THEN "raised" ELSE "returned"
           /\ metadata_station_ids' = outcome.value
    /\ UNCHANGED metadata_response
    /\ UNCHANGED notMetadata

MetadataNext == FetchStationIds

(***************************************************************************)
(* Specifications, one per component                                       *)
(***************************************************************************)
InitHttp == HttpInit /\ BatchedIdle /\ CombineIdle /\ JobsIdle /\ RunIdle /\ FdIdle /\ MainIdle /\ ScratchIdle /\ ChunksIdle /\ UrlIdle /\ MetadataIdle
SpecHttp == InitHttp /\ [][HttpNext]_vars

\* The event loop resumes the coroutine whenever an await of it completes,
\* and every attempt and every sleep completes.
SpecHttpFair == InitHttp /\ [][HttpNext]_vars /\ WF_vars(HttpNext)

InitBatched == BatchedInit /\ HttpIdle /\ CombineIdle /\ JobsIdle /\ RunIdle /\ FdIdle /\ MainIdle /\ ScratchIdle /\ ChunksIdle /\ UrlIdle /\ MetadataIdle
SpecBatched == InitBatched /\ [][BatchedNext]_vars

InitCombine == CombineInit /\ HttpIdle /\ BatchedIdle /\ JobsIdle /\ RunIdle /\ FdIdle /\ MainIdle /\ ScratchIdle /\ ChunksIdle /\ UrlIdle /\ MetadataIdle
SpecCombine == InitCombine /\ [][CombineNext]_vars

InitJobs == JobsInit /\ HttpIdle /\ BatchedIdle /\ CombineIdle /\ RunIdle /\ FdIdle /\ MainIdle /\ ScratchIdle /\ ChunksIdle /\ UrlIdle /\ MetadataIdle
SpecJobs == InitJobs /\ [][JobsNext]_vars

InitRun == JobsInit /\ RunInit /\ HttpIdle /\ BatchedIdle /\ CombineIdle /\ FdIdle /\ MainIdle /\ ScratchIdle /\ ChunksIdle /\ UrlIdle /\ MetadataIdle
SpecRun == InitRun /\ [][RunNext]_vars

InitFd == FdInit /\ HttpIdle /\ BatchedIdle /\ CombineIdle /\ JobsIdle /\ RunIdle /\ MainIdle /\ ScratchIdle /\ ChunksIdle /\ UrlIdle /\ MetadataIdle
SpecFd == InitFd /\ [][FdNext]_vars

InitMain == MainInit /\ HttpIdle /\ BatchedIdle /\ CombineIdle /\ JobsIdle /\ RunIdle /\ FdIdle /\ ScratchIdle /\ ChunksIdle /\ UrlIdle /\ MetadataIdle
SpecMain == InitMain /\ [][MainNext]_vars

InitScratch == ScratchInit /\ HttpIdle /\ BatchedIdle /\ CombineIdle /\ JobsIdle /\ RunIdle /\ FdIdle /\ MainIdle /\ ChunksIdle /\ UrlIdle /\ MetadataIdle
SpecScratch == InitScratch /\ [][ScratchNext]_vars

InitChunks == ChunksInit /\ HttpIdle /\ BatchedIdle /\ CombineIdle /\ JobsIdle /\ RunIdle /\ FdIdle /\ MainIdle /\ ScratchIdle /\ UrlIdle /\ MetadataIdle
SpecChunks == InitChunks /\ [][ChunksNext]_vars

InitUrl == UrlInit /\ HttpIdle /\ BatchedIdle /\ CombineIdle /\ JobsIdle /\ RunIdle /\ FdIdle /\ MainIdle /\ ScratchIdle /\ ChunksIdle /\ MetadataIdle
SpecUrl == InitUrl /\ [][UrlNext]_vars

InitMetadata == MetadataInit /\ HttpIdle /\ BatchedIdle /\ CombineIdle /\ JobsIdle /\ RunIdle /\ FdIdle /\ MainIdle /\ ScratchIdle /\ ChunksIdle /\ UrlIdle
SpecMetadata == InitMetadata /\ [][MetadataNext]_vars

(***************************************************************************)
(* Claims about batched                                                    *)
(***************************************************************************)
RECURSIVE Flatten(_)
Flatten(seqs) == IF seqs = <<>> THEN <<>> ELSE Head(seqs) \o Flatten(Tail(seqs))

\* C4: for n >= 1 the batches yielded so far concatenate to the part of the
\* list consumed so far, and to the whole list once the generator is
\* exhausted; every batch but the last has exactly n elements, the last has
\* between 1 and n; an empty list yields no batch; no error is raised.
C4_BatchedPartition ==
    b_n >= 1 =>
        /\ b_pc # "raised"
        /\ Flatten(b_yielded) = SubSeq(b_iterable, 1, b_it)
        /\ b_pc = "exhausted" => Flatten(b_yielded) = b_iterable
        /\ \A i \in DOMAIN b_yielded :
              /\ Len(b_yielded[i]) >= 1
              /\ Len(b_yielded[i]) <= b_n
              /\ i < Len(b_yielded) => Len(b_yielded[i]) = b_n
        /\ (b_pc = "exhausted" /\ b_iterable = <<>>) => b_yielded = <<>>

\* The generator is exhausted after two or more batches, the last one short.
C4_Witness ==
    /\ b_pc = "exhausted"
    /\ b_n >= 2
    /\ Len(b_yielded) >= 2
    /\ Len(b_yielded[Len(b_yielded)]) < b_n

\* C5: with n = 0 or n negative the generator yields no batch and, as soon as
\* it is advanced, raises ValueError, whatever the list.
C5_InvalidSizeRaises ==
    b_n < 1 =>
        /\ b_yielded = <<>>
        /\ b_pc \in {"created", "raised"}
        /\ b_pc = "raised" => b_error = "ValueError"
        /\ b_pc = "created" => b_error = None

\* ValueError was raised for n = 0 over a non-empty list.
C5_Witness ==
    /\ b_pc = "raised"
    /\ b_error = "ValueError"
    /\ b_n = 0
    /\ b_iterable # <<>>

(***************************************************************************)
(* Claims about _combine_chunk_data                                        *)
(***************************************************************************)
CombineReturned == combine_pc = "returned"

\* r.timestamps and r.features of a response, empty when the key is absent.
TimestampsOf(r) == IF "timestamps" \in DOMAIN r THEN r["timestamps"] ELSE <<>>
FeaturesOf(r) == IF "features" \in DOMAIN r THEN r["features"] ELSE <<>>

\* Number of features held by the first k responses of a list.
RECURSIVE FeatureCount(_, _)
FeatureCount(chunks, k) ==
    IF k = 0 THEN 0 ELSE FeatureCount(chunks, k - 1) + Len(FeaturesOf(chunks[k]))

Occurrences(x, s) == Cardinality({i \in DOMAIN s : s[i] = x})

\* C6: called with a list of exactly one response, _combine_chunk_data
\* returns that response as it is: same keys, same lists in the same order.
C6_SingleResponseIdentity ==
    (CombineReturned /\ Len(chunk_data_list) = 1)
      => combined_data = chunk_data_list[1]

\* A single response with a further key and unsorted, repeated timestamps
\* was returned.
C6_Witness ==
    /\ CombineReturned
    /\ Len(chunk_data_list) = 1
    /\ DOMAIN chunk_data_list[1] = {"timestamps", "features", "type"}
    /\ chunk_data_list[1]["timestamps"] = <<2, 1, 2>>

\* C7: for two or more responses the result holds exactly timestamps and
\* features; timestamps is strictly ascending (sorted, no duplicate) and its
\* elements are the union of the inputs' timestamps; features is the inputs'
\* features one response after the other in list order, so its length is the
\* sum of the inputs' lengths and repeated features are kept.
C7_MergeRule ==
    (CombineReturned /\ Len(chunk_data_list) >= 2)
      => LET n == Len(chunk_data_list)
             ts == combined_data["timestamps"]
             fs == combined_data["features"]
         IN  /\ DOMAIN combined_data = {"timestamps", "features"}
             /\ \A i \in 1 .. Len(ts) - 1 : ts[i] < ts[i + 1]
             /\ Range(ts) = UNION {Range(TimestampsOf(chunk_data_list[i])) : i \in 1 .. n}
             /\ Len(fs) = FeatureCount(chunk_data_list, n)
             /\ \A i \in 1 .. n :
                   \A j \in DOMAIN FeaturesOf(chunk_data_list[i]) :
                      fs[FeatureCount(chunk_data_list, i - 1) + j]
                        = FeaturesOf(chunk_data_list[i])[j]

\* Two responses sharing a timestamp and a feature were merged, and the
\* feature is held twice.
C7_Witness ==
    /\ CombineReturned
    /\ Len(chunk_data_list) = 2
    /\ TimestampsOf(chunk_data_list[1]) = <<2, 1, 2>>
    /\ TimestampsOf(chunk_data_list[2]) = <<1, 3>>
    /\ combined_data["timestamps"] = <<1, 2, 3>>
    /\ Occurrences(11, combined_data["features"]) = 2

\* C8: called with the empty list, _combine_chunk_data returns the empty
\* dict: a structure with no timestamps entry and no features entry.
C8_EmptyListEmptyResult ==
    (CombineReturned /\ chunk_data_list = <<>>)
      => DOMAIN combined_data = {}

\* The call with the empty list has returned.
C8_Witness == CombineReturned /\ chunk_data_list = <<>>

\* The timestamps sequence of a result and its features as a multiset (how
\* often each feature occurs).
FeatureNames == UNION {Range(fl) : fl \in FeatureLists}
Summary(d) ==
    <<TimestampsOf(d), [f \in FeatureNames |-> Occurrences(f, FeaturesOf(d))]>>

\* C9: whatever the order of the responses in the list, the result has the
\* same timestamps sequence and the same multiset of features.
C9_ArrivalOrderIrrelevant ==
    CombineReturned
      => \A p \in Permutations(DOMAIN chunk_data_list) :
            Summary(_combine_chunk_data([i \in DOMAIN chunk_data_list
                                            |-> chunk_data_list[p[i]]]))
              = Summary(combined_data)

\* Three responses were merged whose reversed list gives another features
\* sequence.
C9_Witness ==
    /\ CombineReturned
    /\ Len(chunk_data_list) = 3
    /\ TimestampsOf(chunk_data_list[1]) # TimestampsOf(chunk_data_list[3])
    /\ FeaturesOf(_combine_chunk_data(<<chunk_data_list[3], chunk_data_list[2],
                                         chunk_data_list[1]>>))
         # FeaturesOf(combined_data)

\* Whether a sequence of numbers is strictly ascending.
StrictlyAscending(ts) == \A i \in 1 .. Len(ts) - 1 : ts[i] < ts[i + 1]

\* The union of the timestamps of the responses of a list.
InputTimestamps(chunks) == UNION {Range(TimestampsOf(chunks[i])) : i \in DOMAIN chunks}

\* C28 as stated: for every non-empty list of responses, a single response
\* included, the returned timestamps are sorted ascending without duplicate
\* and are, as a set, the union of the inputs' timestamps.
C28_AsStated ==
    (CombineReturned /\ Len(chunk_data_list) >= 1)
      => /\ StrictlyAscending(TimestampsOf(combined_data))
         /\ Range(TimestampsOf(combined_data)) = InputTimestamps(chunk_data_list)

\* C28 amended: for every non-empty list of responses the returned
\* timestamps are, as a set, the union of the inputs' timestamps; for two or
\* more responses they are sorted ascending without duplicate, and for a
\* single response they are that response's list as it was given.
C28_TimestampsSortedUnion ==
    (CombineReturned /\ Len(chunk_data_list) >= 1)
      => /\ Range(TimestampsOf(combined_data)) = InputTimestamps(chunk_data_list)
         /\ Len(chunk_data_list) >= 2 => StrictlyAscending(TimestampsOf(combined_data))
         /\ Len(chunk_data_list) = 1
               => TimestampsOf(combined_data) = TimestampsOf(chunk_data_list[1])

\* Three responses were merged, the first with repeated, unsorted timestamps
\* and the last with a timestamp the others lack.
C28_Witness ==
    /\ CombineReturned
    /\ Len(chunk_data_list) = 3
    /\ TimestampsOf(chunk_data_list[1]) = <<2, 1, 2>>
    /\ TimestampsOf(chunk_data_list[2]) = <<>>
    /\ TimestampsOf(chunk_data_list[3]) = <<1, 3>>
    /\ TimestampsOf(combined_data) = <<1, 2, 3>>

\* C29: merging is associative: for three responses a, b and c, merging the
\* merge of a and b with c, merging a with the merge of b and c, and merging
\* the three at once give the same timestamps and the same features
\* sequence.
C29_MergeAssociative ==
    (CombineReturned /\ Len(chunk_data_list) = 3)
      => LET a == chunk_data_list[1]
             b == chunk_data_list[2]
             c == chunk_data_list[3]
             left == _combine_chunk_data(<<_combine_chunk_data(<<a, b>>), c>>)
             right == _combine_chunk_data(<<a, _combine_chunk_data(<<b, c>>)>>)
         IN  /\ TimestampsOf(left) = TimestampsOf(combined_data)
             /\ TimestampsOf(right) = TimestampsOf(combined_data)
             /\ FeaturesOf(left) = FeaturesOf(combined_data)
             /\ FeaturesOf(right) = FeaturesOf(combined_data)

\* Three responses with different features lists were merged, the middle
\* one without timestamps.
C29_Witness ==
    /\ CombineReturned
    /\ Len(chunk_data_list) = 3
    /\ FeaturesOf(chunk_data_list[1]) = <<12, 11>>
    /\ FeaturesOf(chunk_data_list[2]) = <<11>>
    /\ "timestamps" \notin DOMAIN chunk_data_list[2]
    /\ FeaturesOf(chunk_data_list[3]) = <<12, 11>>
    /\ FeaturesOf(combined_data) = <<12, 11, 11, 12, 11>>

(***************************************************************************)
(* Claims about fetch_job                                                  *)
(***************************************************************************)
\* C10: whatever fails inside a fetch_job call of any of the five providers,
\* no exception leaves the call.
C10_NoJobPropagates == job_propagated = None

\* The error records a job ends with when it fails: the message of an early
\* failure return, or the exception its handler caught.
JobFailureMessages ==
    {"Failed to download any DWD station files", "Failed to fetch STAC API data",
     "Failed to download any CSV files", "No active station IDs available",
     "Failed to fetch data from any chunk"} \cup ExceptionSubclasses

JobRan == job_count > 0

LastRecord == job_log[Len(job_log)]

JobFailed ==
    /\ JobRan
    /\ job_log # <<>>
    /\ LastRecord \in {ErrorRecord(m) : m \in JobFailureMessages}

JobSkipped ==
    /\ JobRan
    /\ job_log # <<>>
    /\ LastRecord = InfoRecord("Meta-file checksum unchanged")

JobSucceeded == JobRan /\ ~JobFailed /\ ~JobSkipped

\* The extension of the artifact each provider stores.
Extension ==
    [p \in Providers |->
        IF p = "METAR" THEN "xml" ELSE IF p = "GeoSphere" THEN "json" ELSE "zip"]

SingleArtifactProviders == {"METAR", "DWD", "FSDIOpenData", "GeoSphere"}

C13_UnchangedChecksumSkips ==
    [][(/\ provider = "DWD"
        /\ job_count' = job_count + 1
        /\ job_current_checksum' # None
        /\ job_current_checksum' = _last_meta_checksum)
       => (/\ job_requests' = <<Request("meta", <<>>)>>
           /\ job_store_calls' = <<>>
           /\ job_propagated' = None
           /\ _last_meta_checksum' = _last_meta_checksum)]_vars

\* A second job has fetched the checksum the first one retained, and was
\* skipped.
C13_Witness ==
    /\ provider = "DWD"
    /\ job_count = 2
    /\ job_current_checksum # None
    /\ job_current_checksum = _last_meta_checksum
    /\ JobSkipped
    /\ Len(job_requests) = 1

\* The listed files whose download task returned a path.
SuccessfulDownloads == {i \in DOMAIN job_results : job_results[i] = "ok"}

ArchiveWritten == job_log = <<>> \/ LastRecord # ErrorRecord("OSError")

\* C14: a DWDProvider.fetch_job that listed n files of which k >= 1 were
\* downloaded, and whose zip archive was written, makes exactly one store
\* call, keyed "{timestamp}.zip", whose archive holds exactly the k downloaded
\* files, each once, however many of the other downloads failed; nothing
\* leaves the job.
C14_PartialDownloadsStillArchived ==
    (/\ provider = "DWD"
     /\ JobRan
     /\ SuccessfulDownloads # {}
     /\ ArchiveWritten)
    => /\ Len(job_store_calls) = 1
       /\ job_store_calls[1].name = SlotFile(job_timestamp, "zip")
       /\ Range(job_store_calls[1].content) = SuccessfulDownloads
       /\ Len(job_store_calls[1].content) = Cardinality(SuccessfulDownloads)
       /\ job_propagated = None

\* One of two listed files failed to download, and the archive of the other
\* was stored.
C14_Witness ==
    /\ provider = "DWD"
    /\ Len(job_results) = 2
    /\ Cardinality(SuccessfulDownloads) = 1
    /\ Len(job_store_calls) = 1
    /\ job_store_calls[1].ok
    /\ Len(job_store_calls[1].content) = 1

\* The chunks whose request brought a response.
SuccessfulChunks == {i \in DOMAIN job_results : job_results[i].kind = "data"}

\* C15: a job with nothing to store stores nothing and returns normally: a
\* DWDProvider or FSDIOpenDataProvider job none of whose downloads succeeded
\* (the listing or the STAC request failed, nothing was listed, or every
\* download failed) and a GeoSphereProvider job with no station or with no
\* chunk response make no store call, and no exception leaves them.
C15_EmptySuccessfulSetStoresNothing ==
    /\ (provider \in {"DWD", "FSDIOpenData"} /\ JobRan /\ SuccessfulDownloads = {})
       => (job_store_calls = <<>> /\ job_propagated = None)
    /\ (provider = "GeoSphere" /\ JobRan
          /\ (job_station_ids = <<>> \/ SuccessfulChunks = {}))
       => (job_store_calls = <<>> /\ job_propagated = None)

\* An FSDIOpenDataProvider job fetched the STAC document, failed both of its
\* CSV downloads and stored nothing.
C15_Witness ==
    /\ provider = "FSDIOpenData"
    /\ Len(job_results) = 2
    /\ SuccessfulDownloads = {}
    /\ JobFailed
    /\ job_store_calls = <<>>

ChunkRequests == SubSeq(job_requests, 2, Len(job_requests))

ChunkIds == [i \in 1 .. Len(ChunkRequests) |-> ChunkRequests[i].ids]

\* C16: a GeoSphereProvider.fetch_job over N station ids starts, after the
\* station metadata request, exactly ceil(N / 100) chunk requests (none for
\* N = 0, one for 1 <= N <= 100, three for N = 250) and gathers one result
\* for each; every chunk request carries between 1 and 100 ids, all but the
\* last exactly 100, and the chunks concatenated in request order are the
\* station list.
C16_ChunkPartition ==
    (provider = "GeoSphere" /\ JobRan) =>
        LET N == Len(job_station_ids)
        IN  /\ job_requests[1] = Request("stations", <<>>)
            /\ \A i \in DOMAIN ChunkRequests : ChunkRequests[i].kind = "chunk"
            /\ Len(ChunkRequests) = CeilDiv(N, chunk_size)
            /\ Len(job_results) = Len(ChunkRequests)
            /\ N = 0 => Len(ChunkRequests) = 0
            /\ (1 <= N /\ N <= 100) => Len(ChunkRequests) = 1
            /\ N = 250 => Len(ChunkRequests) = 3
            /\ \A i \in DOMAIN ChunkIds :
                  /\ Len(ChunkIds[i]) >= 1
                  /\ Len(ChunkIds[i]) <= 100
                  /\ i < Len(ChunkIds) => Len(ChunkIds[i]) = 100
            /\ Flatten(ChunkIds) = job_station_ids

\* A job over 250 stations has started its three chunk requests, the last
\* with 50 ids.
C16_Witness ==
    /\ provider = "GeoSphere"
    /\ Len(job_station_ids) = 250
    /\ Len(ChunkRequests) = 3
    /\ Len(ChunkIds[3]) = 50

\* The responses of the successful chunks, in chunk order, from chunk i on.
RECURSIVE SuccessfulResponses(_)
SuccessfulResponses(i) ==
    IF i > Len(job_results) THEN <<>>
    ELSE (IF job_results[i].kind = "data" THEN <<job_results[i].data>> ELSE <<>>)
         \o SuccessfulResponses(i + 1)

\* C17: a GeoSphereProvider.fetch_job in which at least one chunk request
\* brought a response makes exactly one store call, keyed "{timestamp}.json",
\* whose document is the merge of exactly the successful chunks' responses,
\* whether the other chunks returned no data or raised an exception.
C17_ChunkFailuresIsolated ==
    (provider = "GeoSphere" /\ JobRan /\ SuccessfulChunks # {}) =>
        /\ Len(job_store_calls) = 1
        /\ job_store_calls[1].name = SlotFile(job_timestamp, "json")
        /\ job_store_calls[1].content = _combine_chunk_data(SuccessfulResponses(1))

\* C18: a MetarSource.fetch_job whose Http.get raises, or returns None
\* because its retries are exhausted, makes no store call, logs an error as
\* its last record and returns without raising, so that the caller goes on
\* to the next call.
C18_MetarFailureSwallowed ==
    (provider = "METAR" /\ JobRan /\ job_results[1] \in {"raises", None}) =>
        /\ job_store_calls = <<>>
        /\ job_log # <<>>
        /\ LastRecord.level = "error"
        /\ job_propagated = None

\* The second call on a MetarSource instance met an Http.get that raised.
C18_Witness ==
    /\ provider = "METAR"
    /\ job_count = 2
    /\ job_results = <<"raises">>
    /\ job_log = <<ErrorRecord("TransportError")>>
    /\ job_propagated = None

\* C30: a fetch_job of DWDProvider, FSDIOpenDataProvider or
\* GeoSphereProvider returns without raising whatever its sub-operations
\* did; an exception raised inside it, the sink's store call and the archive
\* creation included, is the last record of its log, at level error.
C30_ArchiveProvidersNeverRaise ==
    (provider \in {"DWD", "FSDIOpenData", "GeoSphere"} /\ JobRan) =>
        /\ job_propagated = None
        /\ \A i \in DOMAIN job_store_calls :
              ~job_store_calls[i].ok
                => /\ job_log # <<>>
                   /\ LastRecord = ErrorRecord("StoreError")
        /\ \A i \in DOMAIN job_log :
              job_log[i].msg \in ExceptionSubclasses
                => /\ job_log[i].level = "error"
                   /\ i = Len(job_log)

\* The second fetch_job of a FSDIOpenDataProvider instance has returned
\* after its store call raised.
C30_Witness ==
    /\ provider = "FSDIOpenData"
    /\ job_count = 2
    /\ Len(job_store_calls) = 1
    /\ ~job_store_calls[1].ok
    /\ LastRecord = ErrorRecord("StoreError")
    /\ job_propagated = None

\* Every batch of a NdbcProvider job brought an archive that was unpacked, and
\* nothing left the job.
NdbcSucceeded ==
    /\ job_results # <<>>
    /\ \A i \in DOMAIN job_results : job_results[i].kind = "tar"
    /\ job_propagated = None

\* C31: a NdbcProvider.fetch_job that succeeds makes exactly one store call,
\* whose key is derived from the job's timestamp; one that fails, partially
\* (a batch download fails, an archive cannot be unpacked) or totally, has
\* made no store call.
C31_NdbcSinkContract ==
    (provider = "NDBC" /\ JobRan) =>
        IF NdbcSucceeded
        THEN /\ Len(job_store_calls) = 1
             /\ job_store_calls[1].name.timestamp = job_timestamp
        ELSE job_store_calls = <<>>

\* A step that is one fetch_job call of a DWDProvider.
DwdJobStep == provider = "DWD" /\ job_count' = job_count + 1

\* C32: a DWDProvider.fetch_job changes the retained checksum only when its
\* meta-file fetch brought a checksum; a job whose fetch failed leaves the
\* retained checksum as it was and still requests the listing and one
\* download per listed file.
C32_ChecksumOnlySetAfterFetch ==
    [][DwdJobStep =>
          /\ _last_meta_checksum' # _last_meta_checksum => job_current_checksum' # None
          /\ job_current_checksum' = None =>
                /\ _last_meta_checksum' = _last_meta_checksum
                /\ Len(job_requests') >= 2
                /\ job_requests'[2] = Request("listing", <<>>)
                /\ Len(job_requests') = 2 + Len(job_results')]_vars

\* A job whose meta-file fetch failed has downloaded two files while the
\* checksum of the job before it is still retained.
C32_Witness ==
    /\ provider = "DWD"
    /\ job_count = 2
    /\ job_current_checksum = None
    /\ _last_meta_checksum \in Checksums
    /\ Len(job_requests) = 4

\* C33: the retained checksum is the checksum of the most recent job whose
\* meta-file fetch succeeded: each such job leaves its checksum retained,
\* every other job leaves the retained one alone, and it is None only while
\* no job has fetched one.
C33_RetainsLatestChecksum ==
    /\ [](provider = "DWD" /\ job_current_checksum # None
            => _last_meta_checksum = job_current_checksum)
    /\ [][DwdJobStep =>
             _last_meta_checksum' = IF job_current_checksum' # None
                                    THEN job_current_checksum'
                                    ELSE _last_meta_checksum]_vars

\* The second job fetched another checksum than the first, and it is the
\* one retained.
C33_Witness ==
    /\ provider = "DWD"
    /\ job_count = 2
    /\ job_current_checksum = "c2"
    /\ _last_meta_checksum = "c2"
    /\ Len(job_requests) >= 2

\* C34: when a DWDProvider.fetch_job fetched checksum c, attempted the
\* download and stored no archive, the next job that fetches the same c
\* attempts the download again instead of skipping.
C34_UnarchivedChangeRetried ==
    [][(/\ DwdJobStep
        /\ job_count >= 1
        /\ job_current_checksum # None
        /\ Len(job_requests) >= 2
        /\ \A i \in DOMAIN job_store_calls : ~job_store_calls[i].ok
        /\ job_current_checksum' = job_current_checksum)
       => (/\ Len(job_requests') >= 2
           /\ job_requests'[2] = Request("listing", <<>>))]_vars

(***************************************************************************)
(* Claims about the scratch directory of a job                             *)
(***************************************************************************)
\* The files a complete archive holds: every file a task downloaded, and
\* stac_response.json for FSDIOpenDataProvider.
CompleteArchive ==
    {i \in DOMAIN tasks : tasks[i] = "ok"}
    \cup (IF scratch_provider = "FSDIOpenData" THEN {StacFile} ELSE {})

\* C35: the store call of a DWDProvider or FSDIOpenDataProvider job is made
\* when every download task of the job has finished and the zip file has
\* been written and closed, and the bytes it hands over are the complete
\* archive, each file once; a job makes no second store call.
C35_StoreAfterArchiveComplete ==
    [][scratch_store_calls' # scratch_store_calls =>
          /\ \A i \in DOMAIN tasks : tasks[i] # "pending"
          /\ archive.state = "closed"
          /\ Len(scratch_store_calls') = 1
          /\ Range(scratch_store_calls'[1]) = CompleteArchive
          /\ Len(scratch_store_calls'[1]) = Cardinality(CompleteArchive)]_vars

\* A FSDIOpenDataProvider job whose first download failed and whose second
\* succeeded has stored stac_response.json and the second file.
C35_Witness ==
    /\ scratch_provider = "FSDIOpenData"
    /\ tasks = <<"failed", "ok">>
    /\ scratch_store_calls = <<(<<StacFile, 2>>)>>
    /\ scratch_pc = "returned"

\* C36: when the fetch_job has returned, by its end, by an early return or
\* after a swallowed exception, its scratch directory and every file written
\* into it are gone.
C36_ScratchRemovedOnReturn ==
    scratch_pc = "returned" => (~temp_dir /\ temp_files = {})

\* A DWDProvider job that downloaded two files has returned after an OSError
\* raised while its zip file was made.
C36_Witness ==
    /\ scratch_provider = "DWD"
    /\ scratch_pc = "returned"
    /\ scratch_raised = "OSError"
    /\ tasks = <<"ok", "ok">>
    /\ scratch_log = <<ErrorRecord("OSError")>>

(***************************************************************************)
(* Claims about the concurrent chunk requests                              *)
(***************************************************************************)
\* The responses the chunks from index i on were assigned, in index order.
RECURSIVE AssignedResponses(_)
AssignedResponses(i) ==
    IF i > Len(fetch_chunk_outcomes) THEN <<>>
    ELSE (IF fetch_chunk_outcomes[i].kind = "data"
          THEN <<fetch_chunk_outcomes[i].data>> ELSE <<>>)
         \o AssignedResponses(i + 1)

\* C37: the documents a GeoSphereProvider job has stored are a function of
\* the assignment of responses to chunks alone, whatever order the chunk
\* tasks finished in: when no task raised and some chunk brought a response,
\* the one document is the merge of the responses in chunk-index order;
\* otherwise there is none.
C37_MergeInChunkIndexOrder ==
    chunks_pc = "returned" =>
        stored_documents =
            IF \E i \in DOMAIN fetch_chunk_outcomes :
                  fetch_chunk_outcomes[i].kind = "exception"
            THEN <<>>
            ELSE IF AssignedResponses(1) = <<>> THEN <<>>
            ELSE <<_combine_chunk_data(AssignedResponses(1))>>

\* The task of the last of three chunks finished first and that of the
\* first chunk last; the stored features are those of the first chunk
\* followed by those of the last.
C37_Witness ==
    /\ chunks_pc = "returned"
    /\ completion_order = <<3, 2, 1>>
    /\ fetch_chunk_outcomes[1].kind = "data"
    /\ fetch_chunk_outcomes[2].kind = "none"
    /\ fetch_chunk_outcomes[3].kind = "data"
    /\ Len(stored_documents) = 1
    /\ FeaturesOf(stored_documents[1]) = <<11, 12, 11>>

(***************************************************************************)
(* Claims about _construct_api_url                                         *)
(***************************************************************************)
\* The whole minute a number of seconds lies in.
MinuteOf(seconds) == seconds - (seconds % 60)

\* Seconds from 1970-01-01T00:00 to a rendered time, read as UTC.
RenderedSeconds(text) ==
    total_seconds([year |-> text[1], month |-> text[2], day |-> text[3],
                   hour |-> text[4], minute |-> text[5], second |-> 0])

\* A rendered time names a date and a time of day that exist.
WellFormed(text) ==
    /\ Len(text) = 5
    /\ text[2] \in 1 .. 12
    /\ text[3] \in 1 .. 31
    /\ text[4] \in 0 .. 23
    /\ text[5] \in 0 .. 59

\* C39: the URL built for timestamp t has as start the minute of t - 10800 s
\* and as end the minute of t + 10800 s, both as UTC calendar times, so the
\* window is 6 hours wide around t; for the timestamp of the test they are
\* 2024-01-15T07:00 and 2024-01-15T13:00, and for the epoch 1969-12-31T21:00
\* and 1970-01-01T03:00; the station ids are joined by commas in the order
\* given.
C39_WindowOfSixHours ==
    url_pc = "returned" =>
        /\ WellFormed(url.start)
        /\ WellFormed(url.end)
        /\ RenderedSeconds(url.start) = MinuteOf(url_timestamp - 10800)
        /\ RenderedSeconds(url.end) = MinuteOf(url_timestamp + 10800)
        /\ RenderedSeconds(url.end) - RenderedSeconds(url.start) = 21600
        /\ url_timestamp = 1705312800 =>
              /\ url.start = <<2024, 1, 15, 7, 0>>
              /\ url.end = <<2024, 1, 15, 13, 0>>
        /\ url_timestamp = 0 =>
              /\ url.start = <<1969, 12, 31, 21, 0>>
              /\ url.end = <<1970, 1, 1, 3, 0>>
        /\ url_timestamp = 1709254800 => url.start = <<2024, 2, 29, 22, 0>>
        /\ Len(url.station_ids) =
              IF url_station_ids = <<>> THEN 0 ELSE 2 * Len(url_station_ids) - 1
        /\ \A i \in DOMAIN url_station_ids :
              url.station_ids[2 * i - 1] = url_station_ids[i]
        /\ \A i \in 1 .. Len(url_station_ids) - 1 : url.station_ids[2 * i] = ","

\* The URL for the last second of 2024 and three station ids: its window
\* ends in 2025.
C39_Witness ==
    /\ url_pc = "returned"
    /\ url_timestamp = 1735689599
    /\ url.start = <<2024, 12, 31, 20, 59>>
    /\ url.end = <<2025, 1, 1, 2, 59>>
    /\ url.station_ids = <<"11038", ",", "11037", ",", "11035">>

(***************************************************************************)
(* Claims about _fetch_station_ids                                         *)
(***************************************************************************)
\* The metadata request gave a document with the key "stations".
HasStations ==
    /\ ~metadata_response.raises
    /\ metadata_response.status = 200
    /\ ~metadata_response.json_raises
    /\ "stations" \in DOMAIN metadata_response.data

\* The positions of the stations flagged active in a list of stations.
ActivePositions(stations) ==
    {i \in DOMAIN stations : "is_active" \in DOMAIN stations[i] /\ stations[i].is_active}

\* The k-th smallest of a set of positions.
KthOf(positions, k) ==
    CHOOSE i \in positions : Cardinality({j \in positions : j < i}) = k - 1

\* C40: _fetch_station_ids never raises; with a 200 response that has the key
\* "stations" it returns one id per station flagged active, the k-th id being
\* the id of the k-th such station of the document; when the request raises,
\* the status is not 200 or the key is missing it returns the empty list.
C40_ActiveIdsInMetadataOrder ==
    /\ metadata_pc # "raised"
    /\ metadata_pc = "returned" =>
          IF HasStations
          THEN LET stations == metadata_response.data.stations
                   positions == ActivePositions(stations)
               IN  /\ Len(metadata_station_ids) = Cardinality(positions)
                   /\ \A k \in 1 .. Cardinality(positions) :
                         metadata_station_ids[k] = stations[KthOf(positions, k)].id
          ELSE metadata_station_ids = <<>>

\* A document of an active, an inactive and an active station, the last with
\* the smaller id: the two active ids were returned in document order.
C40_Witness ==
    /\ metadata_pc = "returned"
    /\ HasStations
    /\ metadata_response.data.stations =
         <<[id |-> "11037", is_active |-> TRUE], [id |-> "11036", is_active |-> FALSE],
           [id |-> "11035", is_active |-> TRUE]>>
    /\ metadata_station_ids = <<"11037", "11035">>

(***************************************************************************)
(* Claims about the scheduling loop                                        *)
(***************************************************************************)
\* C11: a loop started with a tick count of N never ends by an exception of
\* a fetch_job, whatever the provider: it runs no more than N ticks, and when
\* it has stopped it has completed exactly N of them.
C11_LoopCompletesAllTicks ==
    /\ run_pc # "raised"
    /\ run_completed <= run_ticks
    /\ run_pc = "stopped" => run_completed = run_ticks

(***************************************************************************)
(* Claims about ForecastDownloader.run                                     *)
(***************************************************************************)
\* C19: run(snapshots_to_download=N) never calls get_forecast more than N
\* times, and when it returns it has called it exactly N times and counted N
\* slots (so with N = 0 it calls it never); run(None) does not return.
C19_BoundedSnapshotCount ==
    /\ snapshots_to_download # NoneInt =>
          /\ Len(get_forecast_calls) <= snapshots_to_download[1]
          /\ downloaded_snapshots <= snapshots_to_download[1]
    /\ fd_pc = "returned" =>
          /\ snapshots_to_download # NoneInt
          /\ Len(get_forecast_calls) = snapshots_to_download[1]
          /\ downloaded_snapshots = snapshots_to_download[1]

\* run(2) has returned after two get_forecast calls.
C19_Witness ==
    /\ fd_pc = "returned"
    /\ snapshots_to_download = SomeInt(2)
    /\ Len(get_forecast_calls) = 2

\* C20: once an iteration has chosen its slot, next_snapshot is the smallest
\* multiple of download_period greater than the time read at its top, and
\* the wait is next_snapshot minus that time, between 1 and download_period
\* seconds, however long the previous iteration took.
C20_NextSlotAligned ==
    fd_pc \in {"sleep", "prepare", "get_forecast", "archive", "upload", "collected"} =>
        /\ next_snapshot % _download_period = 0
        /\ next_snapshot > current_time
        /\ next_snapshot - _download_period <= current_time
        /\ wait_time = next_snapshot - current_time
        /\ wait_time >= 1
        /\ wait_time <= _download_period

\* An iteration that follows one which overran its period has chosen a slot
\* more than one period after the previous slot.
C20_Witness ==
    /\ fd_pc = "sleep"
    /\ downloaded_snapshots >= 1
    /\ next_snapshot > get_forecast_calls[Len(get_forecast_calls)] + _download_period
    /\ wait_time < _download_period

\* C21: within one run the slot timestamps handed to the client are strictly
\* increasing, so no slot is fetched twice (the clock never goes back and a
\* sleep of d seconds returns no earlier than d seconds after it began).
C21_SlotsStrictlyIncrease ==
    \A i, j \in 1 .. Len(get_forecast_calls) :
        i < j => get_forecast_calls[i] < get_forecast_calls[j]

\* A run has handed three slots to the client, the last one more than a
\* period after the one before it.
C21_Witness ==
    /\ Len(get_forecast_calls) = 3
    /\ get_forecast_calls[3] > get_forecast_calls[2] + _download_period

\* C22: when client.get_forecast raises, run ends with that error: the slot
\* is the last one attempted, it has no zip, no upload and is not counted.
C22_ClientErrorEndsRun ==
    fd_error = "ClientError" =>
        /\ fd_pc = "raised"
        /\ get_forecast_calls[Len(get_forecast_calls)] = next_snapshot
        /\ downloaded_snapshots = Len(get_forecast_calls) - 1
        /\ \A z \in local_zips \cup Range(uploads) : z.slot # next_snapshot

\* The client raised on the second slot of a run that collected the first.
C22_Witness ==
    /\ fd_error = "ClientError"
    /\ downloaded_snapshots = 1
    /\ Len(uploads) = 1

\* The slots whose iteration has completed.
CompletedSlots == {get_forecast_calls[i] : i \in 1 .. downloaded_snapshots}

\* C23: every slot whose iteration completed has, when local snapshots are
\* not kept, neither a scratch directory nor a zip on disk, and when they
\* are kept, both, with the files the client wrote; later iterations leave
\* them so.
C23_LocalCopiesFollowFlag ==
    \A s \in CompletedSlots :
        IF _keep_local_snapshots
        THEN /\ s \in local_dirs
             /\ FilesOf(s) = {"forecast"}
             /\ Zip(s, {"forecast"}) \in local_zips
        ELSE /\ s \notin local_dirs
             /\ FilesOf(s) = {}
             /\ \A z \in local_zips : z.slot # s

\* A later iteration is creating its archive while the copies of two earlier
\* slots are kept.
C23_Witness ==
    /\ _keep_local_snapshots
    /\ downloaded_snapshots = 2
    /\ fd_pc = "upload"
    /\ Cardinality(local_zips) = 3

\* C24: get_forecast is invoked on an existing, empty directory named after
\* the slot, and no zip, local or uploaded, holds a file of a directory that
\* existed before the iteration.
C24_FreshScratchDirectory ==
    /\ fd_pc = "get_forecast" =>
          /\ next_snapshot \in local_dirs
          /\ FilesOf(next_snapshot) = {}
    /\ \A z \in local_zips \cup Range(uploads) : "leftover" \notin z.files

\* A slot whose directory existed before the run has been zipped and
\* uploaded, while leftover directories of other names are still on disk.
C24_Witness ==
    /\ Len(uploads) >= 1
    /\ \E f \in local_files : f[2] = "leftover"

\* How many uploads were made of the zip of a slot.
UploadsOf(slot) == Cardinality({i \in DOMAIN uploads : uploads[i].slot = slot})

\* C38: every slot whose iteration completed was counted and its zip was
\* uploaded exactly once when an s3_uri is configured; nothing is ever
\* uploaded when s3_uri is None; and an upload is made while the zip and
\* the scratch directory of the slot are both on disk, of that very zip.
C38_UploadOncePerSlot ==
    /\ [](/\ _s3_uri = None => uploads = <<>>
          /\ \A s \in CompletedSlots : UploadsOf(s) = IF _s3_uri # None THEN 1 ELSE 0
          /\ \A i \in DOMAIN uploads : UploadsOf(uploads[i].slot) = 1
          /\ fd_pc \in {"while", "returned"} =>
                downloaded_snapshots = Len(get_forecast_calls))
    /\ [][uploads' # uploads =>
             /\ uploads' = Append(uploads, Zip(next_snapshot, {"forecast"}))
             /\ Zip(next_snapshot, {"forecast"}) \in local_zips
             /\ next_snapshot \in local_dirs
             /\ local_zips' = local_zips
             /\ local_dirs' = local_dirs
             /\ downloaded_snapshots' = downloaded_snapshots]_vars

\* A run without local copies has uploaded and counted two slots.
C38_Witness ==
    /\ _s3_uri # None
    /\ ~_keep_local_snapshots
    /\ downloaded_snapshots = 2
    /\ Len(uploads) = 2
    /\ local_zips = {}

(***************************************************************************)
(* Claims about the sensors entry point                                    *)
(***************************************************************************)
\* The text before the first "://" of a URI, or None when it has none there.
Scheme(uri) == IF Len(uri) >= 2 /\ uri[2] = "://" THEN uri[1] ELSE None

\* C25: once a creator has been entered, a URI of scheme s3 has given the
\* object-store publisher, a URI of scheme file the local-filesystem
\* publisher, and any other URI has ended main with an error, no publisher
\* and no provider created and run never entered.
C25_SinkByUriScheme ==
    (main_pc # "main" /\ command # None) =>
        CASE Scheme(storage_uri) = "s3" ->
                 /\ publisher.kind = "S3Publisher"
                 /\ main_error = None
          [] Scheme(storage_uri) = "file" ->
                 /\ publisher.kind = "FilePublisher"
                 /\ main_error = None
          [] OTHER ->
                 /\ main_pc = "raised"
                 /\ main_error = "ValueError"
                 /\ publisher = NoPublisher
                 /\ main_provider = None
                 /\ main_runs = 0

\* A URI of another scheme has been rejected.
C25_Witness ==
    /\ main_pc = "raised"
    /\ command = "dwd"
    /\ storage_uri = <<"gs", "://", "bucket">>

(***************************************************************************)
(* Claims about Http.get_with_session                                      *)
(***************************************************************************)
Max(a, b) == IF a >= b THEN a ELSE b

HttpReturned == http_pc = "returned"

\* The attempt answered 200 and its body was read.
AttemptSucceeded(o) == ~o.get_raised /\ o.status = StatusOK /\ ~o.read_raised

AllAttemptsFailed == \A i \in DOMAIN http_attempts : ~AttemptSucceeded(http_attempts[i])

\* C1 as stated: at most retry_count GET attempts are made; the first attempt
\* whose status is 200 is the last attempt and its body is what is returned;
\* when every attempt fails, None is returned after exactly retry_count
\* attempts (zero when retry_count <= 0).
C1_AsStated ==
    /\ Len(http_attempts) <= Max(retry_count, 0)
    /\ \A i \in DOMAIN http_attempts :
          http_attempts[i].status = StatusOK
            => /\ i = Len(http_attempts)
               /\ HttpReturned
               /\ http_result = http_attempts[i].body
    /\ (HttpReturned /\ AllAttemptsFailed)
          => /\ http_result = None
             /\ Len(http_attempts) = Max(retry_count, 0)

\* C1 amended: at most retry_count GET attempts are made; the first attempt
\* whose status is 200 and whose body is read without an exception is the
\* last attempt and its body is what is returned (an attempt answering 200
\* whose read raises is a failed attempt and is retried); when every attempt
\* fails, None is returned after exactly retry_count attempts (zero when
\* retry_count <= 0).
C1_BoundedAttempts ==
    /\ Len(http_attempts) <= Max(retry_count, 0)
    /\ \A i \in DOMAIN http_attempts :
          AttemptSucceeded(http_attempts[i])
            => /\ i = Len(http_attempts)
               /\ HttpReturned
               /\ http_result = http_attempts[i].body
    /\ (HttpReturned /\ AllAttemptsFailed)
          => /\ http_result = None
             /\ Len(http_attempts) = Max(retry_count, 0)
    /\ (HttpReturned /\ http_result # None)
          => /\ http_attempts # <<>>
             /\ AttemptSucceeded(http_attempts[Len(http_attempts)])

\* A body is returned by the attempt that follows a 200 answer whose read raised.
C1_Witness ==
    /\ HttpReturned
    /\ http_result \in Bodies
    /\ Len(http_attempts) >= 2
    /\ http_attempts[1].status = StatusOK
    /\ http_attempts[1].read_raised

\* C2: no exception leaves get_with_session: an attempt that raises (in
\* session.get or in response.read) is absorbed and uses up one retry, and the
\* call returns either a body or None.
C2_NeverRaises ==
    /\ ~http_raised
    /\ HttpReturned => http_result \in Bodies \cup {None}
    /\ (http_pc = "loop" /\ retry_count > 0)
          => remain_retries + Len(http_attempts) = retry_count

\* The call has returned after an attempt whose GET raised and one whose read raised.
C2_Witness ==
    /\ HttpReturned
    /\ \E i \in DOMAIN http_attempts : http_attempts[i].get_raised
    /\ \E i \in DOMAIN http_attempts : http_attempts[i].read_raised

\* C3: when None is returned after retry_count >= 1 failed attempts, the failure
\* of the last attempt has been logged (a warning or exception record for that
\* attempt), whether it raised or answered a non-200 status.
C3_FinalFailureLogged ==
    (HttpReturned /\ http_result = None /\ retry_count >= 1)
      => \E i \in DOMAIN http_log :
            /\ http_log[i].attempt = retry_count
            /\ http_log[i].level \in {"warning", "exception"}

\* C26: every call of get_with_session returns, and every failed attempt is
\* followed by a decrement of the remaining-retries counter before the next
\* one, so that no failure is retried without end.
C26_Terminates ==
    /\ <>HttpReturned
    /\ [][http_pc = "backoff" => remain_retries' < remain_retries]_vars
    /\ [](remain_retries <= Max(retry_count, 0) \/ remain_retries = retry_count)

\* A call with the largest retry count has returned after using every retry.
C26_Witness ==
    /\ HttpReturned
    /\ retry_count = MaxRetry
    /\ Len(http_attempts) = MaxRetry
    /\ remain_retries = 0

\* C27: one sleep separates consecutive attempts and none follows the last:
\* a call that has returned after k >= 1 attempts has slept k - 1 times, so
\* a call that used up retry_count attempts has slept retry_count - 1 times.
C27_SleepsOnlyBetweenAttempts ==
    /\ http_sleeps <= Len(http_attempts)
    /\ http_pc = "loop" => http_sleeps = Len(http_attempts)
    /\ HttpReturned => http_sleeps = Max(Len(http_attempts) - 1, 0)

=============================================================================
